---- MODULE Spec2Model ----
(***************************************************************************)
(* State-machine model of the PixelGrid component                          *)
(* (src/src/components/PixelGrid.tsx) together with the App shell that     *)
(* owns its props (src/unnamed/part_010).                                   *)
(*                                                                         *)
(* Units.  Floating point quantities are kept as scaled integers:          *)
(*   intensity   : thousandths            (1.0    = 1000)                   *)
(*   factor      : ten-thousandths        (0.965  = 9650)                   *)
(*   position    : hundredths of a cell   (x+0.5  = 100*x + 50)             *)
(*   frame delta : hundredths of a frame  (1 frame at 60 fps = 100)         *)
(*   time        : thirds of a millisecond (1000/60 ms = 50, 16 ms = 48)    *)
(*   ratio       : thousandths            (revealRatios)                    *)
(* The host (browser) is part of the state: the queue of outstanding       *)
(* requestAnimationFrame handles and the pending timers.  Timer delays are  *)
(* abstracted: a pending timer may fire at any moment, except that the      *)
(* timers of one ripple / one click explosion fire in order of their delay. *)
(***************************************************************************)
EXTENDS Integers, Sequences, FiniteSets, TLC

(* ---------------------------------------------------------------------- *)
(* Bounds of the model                                                    *)
(* ---------------------------------------------------------------------- *)
\* grid side; the source uses 98, the model a grid small enough to enumerate
GRID_SIZE == 3
\* capacity of the scatter-particle pool; the source uses 800
SCATTER_PARTICLE_MAX_COUNT == 2
\* pointer events (move / enter / down) the environment may deliver
MaxPointerEvents == 2
\* largest value the App's scatterSignal counter may take
MaxScatterSignal == 1
\* lifetime of a scatter particle; the source uses 500 ms (1500 in the units
\* below), the model a lifetime of three capped frames
SCATTER_PARTICLE_MAX_AGE_MS == 300
\* age at which a lit cell is released; the source uses 400 ms (1200), the
\* model two capped frames
TRAIL_RELEASE_MAX_AGE_MS == 200
\* reach of a click explosion in cells; the source uses 100 (the whole grid),
\* the model the clicked cell alone
EXPLOSION_RADIUS == 0
\* intensity (thousandths) below which a ripple stops spreading; the source
\* uses 0.06 (four rings), the model a ripple of the start cell alone
MIN_RIPPLE_INTENSITY == 600

(* ---------------------------------------------------------------------- *)
(* Program constants (in the units above)                                 *)
(* ---------------------------------------------------------------------- *)
DECAY_FACTOR == 9650
MIN_VISIBLE_INTENSITY == 1
VERTICAL_MARGIN_PCT == 35
GLOBAL_EXPLOSION_BASE_SPEED == 145
GLOBAL_EXPLOSION_SPEED_JITTER == 55
GLOBAL_EXPLOSION_GRAVITY == 22
GLOBAL_EXPLOSION_DRAG == 9600
GLOBAL_EXPLOSION_INTENSITY_DECAY == 9200
TEXT_REVEAL_DURATION_MS == 9000
TEXT_REVEAL_SMOOTHING == 80
SCATTER_PARTICLE_SPEED_MIN == 1
SCATTER_PARTICLE_SPEED_MAX == 50
SCATTER_PARTICLE_DRAG == 9000
SCATTER_PARTICLE_INTENSITY_DECAY == 9800
SCATTER_PARTICLE_MIN_INTENSITY == 400
SCATTER_PARTICLE_FRAME_MS == 50
\* batchSize: glyph cells a frame takes off the pending-scatter queue.  The
\* source takes 96 of a glyph of some thousand cells; here it is one of the
\* TextCount cells, so that a frame which reveals several leaves a backlog.
BATCH_SIZE == 1
BASELINE_DELTA_MS == 48
MAX_FRAME_DELTA == 200

\* a frame gap the host may report between two consecutive frames (1000 ms)
FrameGaps == {3000}

\* the gap after the page was in the background for as long as the reveal
\* takes (3000 ms)
PauseGaps == {9000}

Null == 0
Undefined == 0 - 2
NoText == 0 - 1
NoCoords == 0 - 1

(* ---------------------------------------------------------------------- *)
(* Helpers                                                                *)
(* ---------------------------------------------------------------------- *)
\* Bind(v, F) is F(v) with v evaluated once: the const of the source
Bind(v, F(_)) == CHOOSE r \in { F(x) : x \in {v} } : TRUE

Min(a, b) == IF a < b THEN a ELSE b
Max(a, b) == IF a > b THEN a ELSE b
clamp(value, lo, hi) == Min(hi, Max(lo, value))

\* Math.pow(base, delta) for the frame deltas the model produces:
\* 0.96 (the 16 ms baseline), 1 and 2 (the cap).
Pow(base, delta) ==
  IF delta = 200 THEN (base * base) \div 10000
  ELSE IF delta = 100 THEN base
  ELSE CASE base = 9650 -> 9664
         [] base = 9800 -> 9808
         [] base = 9000 -> 9038
         [] base = 9600 -> 9616
         [] base = 9200 -> 9231
         [] OTHER -> base

Scale(value, factor) == (value * factor) \div 10000

Cells == 0 .. (GRID_SIZE * GRID_SIZE - 1)
CellX(c) == c % GRID_SIZE
CellY(c) == c \div GRID_SIZE
InGrid(x, y) == x >= 0 /\ x < GRID_SIZE /\ y >= 0 /\ y < GRID_SIZE

(* ---------------------------------------------------------------------- *)
(* Glyph data: createTextData applied to a bitmap whose covered cells are  *)
(* one full row of equal coverage (all cells tie at the cutoff and are     *)
(* kept, the row is recentred vertically).                                 *)
(* ---------------------------------------------------------------------- *)
GlyphRow ==
  clamp((GRID_SIZE - 1) \div 2,
        Min((GRID_SIZE * VERTICAL_MARGIN_PCT) \div 100, GRID_SIZE - 1),
        GRID_SIZE - 1)

cellIndices == [k \in 1 .. GRID_SIZE |-> GlyphRow * GRID_SIZE + (k - 1)]
TextCount == Len(cellIndices)
cellIndexLookup ==
  [c \in Cells |-> IF CellY(c) = GlyphRow THEN CellX(c) + 1 ELSE NoText]
mask == [c \in Cells |-> IF CellY(c) = GlyphRow THEN 1000 ELSE 0]
revealRatios == [c \in Cells |-> (CellX(c) * 1000) \div Max(1, GRID_SIZE - 1)]

\* a variant of the sweep weight that is full as soon as the sweep has begun
computeSweepReveal_eager(progress, ratio) ==
  IF progress <= 0 THEN 0 ELSE 1

computeSweepReveal(progress, ratio) ==
  IF progress <= 0 THEN 0
  ELSE IF progress >= TEXT_REVEAL_DURATION_MS THEN 1
  ELSE IF progress * 1000 + Max(TEXT_REVEAL_SMOOTHING, 0) * TEXT_REVEAL_DURATION_MS
            >= ratio * TEXT_REVEAL_DURATION_MS
       THEN 1 ELSE 0

(* ---------------------------------------------------------------------- *)
(* State                                                                  *)
(* ---------------------------------------------------------------------- *)
VARIABLES
  ref,   \* the useRef cells of PixelGrid (one field per ref)
  host,  \* browser side: outstanding animation-frame handles, unmounted flag
  app,   \* App state: phase, scatterSignal, its two timers
  hist,  \* history: last handler run and what it did (observation only)
  probe  \* the value a single-function specification works on, else NoProbe

vars == <<ref, host, app, hist, probe>>

NoProbe == [kind |-> "none"]

ZeroCells == [c \in Cells |-> 0]
ZeroText == [k \in 1 .. TextCount |-> 0]

RefInit ==
  [ animationFrame |-> Null,
    intensities |-> ZeroCells,
    textScatterFlags |-> ZeroText,
    remainingTextCells |-> TextCount,
    scatterStarted |-> FALSE,
    scatterComplete |-> FALSE,
    scatterCompletionGuard |-> FALSE,
    scatterTimers |-> <<>>,
    explosionTimers |-> <<>>,
    rippleTimers |-> <<>>,
    phaseRef |-> "intro",
    lastScatterSignal |-> 0,
    globalExplosionParticles |-> <<>>,
    globalExplosionActive |-> FALSE,
    firstInteractionHandled |-> FALSE,
    interactiveEnabled |-> FALSE,
    interactiveEnableTimer |-> FALSE,
    lastFrameTime |-> "null",
    textRevealProgress |-> 0,
    autoScatterTimer |-> FALSE,
    scatterActive |-> FALSE,
    pendingForcedScatter |-> FALSE,
    scatterParticles |-> <<>>,
    pendingTextScatter |-> <<>>,
    lastParticleSpawn |-> [c \in Cells |-> "never"],
    intensityAge |-> ZeroCells,
    highlightActive |-> <<>>,
    highlightActiveFlags |-> ZeroCells,
    frameRunning |-> FALSE,
    framePending |-> FALSE,
    textRevealTriggered |-> ZeroText ]

HostInit == [ rafQueue |-> {}, unmounted |-> FALSE ]

AppInit ==
  [ phase |-> "intro", scatterSignal |-> 0,
    introTimer |-> FALSE, transitionTimer |-> FALSE ]

HistInit ==
  [ lastEvent |-> "init",
    scatterAllRan |-> FALSE,      \* this step performed a scatter-all reset
    completeCalls |-> 0,          \* onScatterComplete calls since the last scatter-all
    completedVia |-> "none",      \* which path made the last onScatterComplete call
    spawnRejected |-> FALSE,      \* this step attempted a spawn on a full pool
    timersCancelled |-> FALSE,    \* this step's reset found effect timers pending
    spawnedCells |-> <<>>,        \* cells this step pushed a scatter particle at
    duplicateSpawn |-> FALSE,     \* this step scattered a glyph cell scattered before
    highlightSpawn |-> [made |-> FALSE],  \* this step's spawn for a highlight
    frameReport |-> [ran |-> FALSE],
    phaseCalls |-> [start |-> "none", complete |-> FALSE],  \* this step's App callbacks
    scheduleCalls |-> 0,          \* this step's scheduleFrame calls inside frame (to 2)
    explosionCut |-> FALSE,       \* this step's timer ended an explosion with live particles
    explosionStarts |-> 0,        \* global explosions started so far (counted to 2)
    frameClock |-> [fresh |-> FALSE, reveal |-> 0],  \* this step's frame: whether it
                                  \* found no last timestamp, and how far it moved
                                  \* textRevealProgress
    pointerEvents |-> 0 ]

\* The whole state as one record, the form the handlers below work on.
World == ref @@ host @@ app @@ hist

Commit(w0) ==
  \E w \in {w0} :
    /\ ref' = [f \in DOMAIN ref |-> w[f]]
    /\ host' = [f \in DOMAIN host |-> w[f]]
    /\ app' = [f \in DOMAIN app |-> w[f]]
    /\ hist' = [f \in DOMAIN hist |-> w[f]]
    /\ probe' = probe

\* Every handler starts from the current state with the per-step
\* observations cleared.
Begin(event) ==
  [World EXCEPT !.lastEvent = event, !.scatterAllRan = FALSE,
                !.spawnRejected = FALSE, !.timersCancelled = FALSE,
                !.spawnedCells = <<>>, !.duplicateSpawn = FALSE,
                !.highlightSpawn = [made |-> FALSE],
                !.frameReport = [ran |-> FALSE], !.explosionCut = FALSE,
                !.phaseCalls = [start |-> "none", complete |-> FALSE],
                !.scheduleCalls = 0,
                !.frameClock = [fresh |-> FALSE, reveal |-> 0]]

(* ---------------------------------------------------------------------- *)
(* Host primitives                                                        *)
(* ---------------------------------------------------------------------- *)
SetMax(S) == CHOOSE m \in S : \A x \in S : x <= m

\* window.requestAnimationFrame(frame): a fresh handle joins the queue and
\* is stored in animationFrameRef by the caller.
requestAnimationFrame(w0) ==
  Bind(w0, LAMBDA w :
    Bind(SetMax(w.rafQueue \cup {w.animationFrame, Null}) + 1, LAMBDA id :
      [w EXCEPT !.rafQueue = @ \cup {id}, !.animationFrame = id]))

\* window.cancelAnimationFrame(handle): a no-op for a handle not outstanding.
cancelAnimationFrame(w, handle) == [w EXCEPT !.rafQueue = @ \ {handle}]

(* ---------------------------------------------------------------------- *)
(* Frame scheduler                                                        *)
(* ---------------------------------------------------------------------- *)
scheduleFrame_noQueuedCheck(w0, force) ==
  Bind(w0, LAMBDA w :
    IF w.frameRunning THEN [w EXCEPT !.framePending = TRUE]
    ELSE requestAnimationFrame([w EXCEPT !.framePending = FALSE]))

\* scheduleFrame without the hand-over to a running frame
scheduleFrame_ignoresRunning(w0, force) ==
  Bind([w0 EXCEPT !.scheduleCalls = IF w0.frameRunning THEN Min(@ + 1, 2) ELSE @],
       LAMBDA w :
    IF w.animationFrame # Null /\ ~force THEN w
    ELSE requestAnimationFrame(
           [(IF w.animationFrame # Null
             THEN [cancelAnimationFrame(w, w.animationFrame)
                     EXCEPT !.animationFrame = Null]
             ELSE w) EXCEPT !.framePending = FALSE]))

scheduleFrame(w0, force) ==
  Bind(w0, LAMBDA w :
    IF w.frameRunning
    THEN [w EXCEPT !.framePending = TRUE, !.scheduleCalls = Min(@ + 1, 2)]
    ELSE IF w.animationFrame # Null /\ ~force THEN w
    ELSE requestAnimationFrame(
           [(IF w.animationFrame # Null
             THEN [cancelAnimationFrame(w, w.animationFrame)
                     EXCEPT !.animationFrame = Null]
             ELSE w) EXCEPT !.framePending = FALSE]))

(* ---------------------------------------------------------------------- *)
(* Timer lists                                                            *)
(* ---------------------------------------------------------------------- *)
clearScatterTimers(w) == [w EXCEPT !.scatterTimers = <<>>]
clearExplosionTimers(w) == [w EXCEPT !.explosionTimers = <<>>]
clearRippleTimers_keepPending(w) == w
clearRippleTimers(w) == [w EXCEPT !.rippleTimers = <<>>]
clearScatterCompletionGuard(w) == [w EXCEPT !.scatterCompletionGuard = FALSE]

\* Observation: whether a reset event finds ripple, click-explosion or
\* scatter timers pending.
BeforeReset(w) ==
  [w EXCEPT !.timersCancelled =
     @ \/ Len(w.scatterTimers) + Len(w.explosionTimers) + Len(w.rippleTimers) > 0]

\* Observation: a timer that is still pending when a reset event ends was
\* scheduled before that reset.
MarkStale(timers) ==
  Bind(timers, LAMBDA ts : [i \in 1 .. Len(ts) |-> [ts[i] EXCEPT !.stale = TRUE]])
AfterReset(w) ==
  [w EXCEPT !.scatterTimers = MarkStale(@),
            !.explosionTimers = MarkStale(@),
            !.rippleTimers = MarkStale(@)]

(* ---------------------------------------------------------------------- *)
(* Intensity field                                                        *)
(* ---------------------------------------------------------------------- *)
depositIntensity_sums(w0, cellIndex, value) ==
  IF cellIndex < 0 \/ cellIndex >= GRID_SIZE * GRID_SIZE \/ value <= 0 THEN w0
  ELSE
    Bind(w0, LAMBDA w :
    Bind(Min(1000, value), LAMBDA clamped :
    Bind([w EXCEPT !.intensities[cellIndex] = Min(1000, @ + clamped),
                   !.intensityAge[cellIndex] = 0], LAMBDA w1 :
      IF clamped > MIN_VISIBLE_INTENSITY
         /\ w1.highlightActiveFlags[cellIndex] = 0
         /\ mask[cellIndex] <= 0
      THEN [w1 EXCEPT !.highlightActiveFlags[cellIndex] = 1,
                      !.highlightActive = Append(@, cellIndex)]
      ELSE w1)))

depositIntensity(w0, cellIndex, value) ==
  IF cellIndex < 0 \/ cellIndex >= GRID_SIZE * GRID_SIZE \/ value <= 0 THEN w0
  ELSE
    Bind(w0, LAMBDA w :
    Bind(Min(1000, value), LAMBDA clamped :
    Bind([w EXCEPT !.intensities[cellIndex] = Max(@, clamped),
                   !.intensityAge[cellIndex] = 0], LAMBDA w1 :
      IF clamped > MIN_VISIBLE_INTENSITY
         /\ w1.highlightActiveFlags[cellIndex] = 0
         /\ mask[cellIndex] <= 0
      THEN [w1 EXCEPT !.highlightActiveFlags[cellIndex] = 1,
                      !.highlightActive = Append(@, cellIndex)]
      ELSE w1)))

(* ---------------------------------------------------------------------- *)
(* Scatter particles                                                      *)
(* ---------------------------------------------------------------------- *)
\* One draw of Math.random() for a spawn: a unit direction (hundredths) and
\* a speed within [SCATTER_PARTICLE_SPEED_MIN, SCATTER_PARTICLE_SPEED_MAX].
SpawnDraws ==
  { [cos |-> 100, sin |-> 0, speed |-> SCATTER_PARTICLE_SPEED_MAX] }

NewScatterParticle(cellIndex, intensity, rnd) ==
  [ x |-> CellX(cellIndex) * 100 + 50,
    y |-> CellY(cellIndex) * 100 + 50,
    vx |-> (rnd.cos * rnd.speed) \div 100,
    vy |-> (rnd.sin * rnd.speed) \div 100,
    intensity |-> intensity,
    ageMs |-> 0,
    lastCellIndex |-> cellIndex ]

spawnScatterParticle_noCap(w0, cellIndex, baseIntensity, rnd) ==
  IF cellIndex = Undefined \/ cellIndex < 0 \/ cellIndex >= GRID_SIZE * GRID_SIZE
  THEN w0
  ELSE
    Bind(clamp(baseIntensity, 0, 1000), LAMBDA intensity :
      scheduleFrame(
        depositIntensity(
          [w0 EXCEPT !.scatterParticles =
             Append(@, NewScatterParticle(cellIndex, intensity, rnd)),
                      !.spawnedCells = Append(@, cellIndex)],
          cellIndex, intensity),
        FALSE))

spawnScatterParticle_depositsAtCap(w0, cellIndex, baseIntensity, rnd) ==
  IF cellIndex = Undefined \/ cellIndex < 0 \/ cellIndex >= GRID_SIZE * GRID_SIZE
  THEN w0
  ELSE
    Bind(w0, LAMBDA w :
    Bind(clamp(baseIntensity, 0, 1000), LAMBDA intensity :
      IF Len(w.scatterParticles) >= SCATTER_PARTICLE_MAX_COUNT
      THEN scheduleFrame(
             depositIntensity([w EXCEPT !.spawnRejected = TRUE], cellIndex, intensity),
             FALSE)
      ELSE
        scheduleFrame(
          depositIntensity(
            [w EXCEPT !.scatterParticles =
               Append(@, NewScatterParticle(cellIndex, intensity, rnd)),
                      !.spawnedCells = Append(@, cellIndex)],
            cellIndex, intensity),
          FALSE)))

spawnScatterParticle(w0, cellIndex, baseIntensity, rnd) ==
  IF cellIndex = Undefined \/ cellIndex < 0 \/ cellIndex >= GRID_SIZE * GRID_SIZE
  THEN w0
  ELSE
    Bind(w0, LAMBDA w :
      IF Len(w.scatterParticles) >= SCATTER_PARTICLE_MAX_COUNT
      THEN [w EXCEPT !.spawnRejected = TRUE]
      ELSE
        Bind(clamp(baseIntensity, 0, 1000), LAMBDA intensity :
          scheduleFrame(
            depositIntensity(
              [w EXCEPT !.scatterParticles =
                 Append(@, NewScatterParticle(cellIndex, intensity, rnd)),
                      !.spawnedCells = Append(@, cellIndex)],
              cellIndex, intensity),
            FALSE)))

(* ---------------------------------------------------------------------- *)
(* The App callbacks handed to PixelGrid as props                          *)
(* ---------------------------------------------------------------------- *)
clearTransitionTimer(w) == [w EXCEPT !.transitionTimer = FALSE]

\* handleScatterStart: the setPhase updater runs only while App is mounted.
onScatterStart_anyPhase(w0) ==
  Bind(w0, LAMBDA w1 :
    IF w1.unmounted THEN w1
    ELSE [w1 EXCEPT !.transitionTimer = TRUE, !.phase = "transition",
                    !.phaseCalls.start = "moved"])

onScatterStart(w0) ==
  Bind(w0, LAMBDA w1 :
    IF w1.unmounted \/ w1.phase # "intro"
    THEN [w1 EXCEPT !.phaseCalls.start = "ignored"]
    ELSE [w1 EXCEPT !.transitionTimer = TRUE, !.phase = "transition",
                    !.phaseCalls.start = "moved"])

\* handleScatterComplete
onScatterComplete(w0, via) ==
  Bind(clearTransitionTimer(
         [w0 EXCEPT !.completeCalls = Min(@ + 1, 3), !.completedVia = via,
                    !.phaseCalls.complete = TRUE]),
       LAMBDA w1 : IF w1.unmounted THEN w1 ELSE [w1 EXCEPT !.phase = "grid"])

(* ---------------------------------------------------------------------- *)
(* Scatter-all cycle                                                      *)
(* ---------------------------------------------------------------------- *)
scatterAll(w0, force) ==
  Bind(w0, LAMBDA w :
    IF TextCount = 0 THEN w
    ELSE IF w.scatterActive /\ ~force THEN w
    ELSE
      scheduleFrame(AfterReset(
        clearRippleTimers(clearExplosionTimers(clearScatterTimers(
          clearScatterCompletionGuard(
            [BeforeReset(w) EXCEPT
               !.scatterActive = TRUE,
               !.pendingForcedScatter = FALSE,
               !.autoScatterTimer = FALSE,
               !.textRevealProgress = 0,
               !.lastFrameTime = "null",
               !.textScatterFlags = ZeroText,
               !.remainingTextCells = TextCount,
               !.scatterStarted = FALSE,
               !.scatterComplete = FALSE,
               !.scatterParticles = <<>>,
               !.pendingTextScatter = <<>>,
               !.textRevealTriggered = ZeroText,
               !.highlightActive = <<>>,
               !.highlightActiveFlags = ZeroCells,
               !.lastParticleSpawn = [c \in Cells |-> "never"],
               !.intensities = ZeroCells,
               !.intensityAge = ZeroCells,
               \* observation
               !.scatterAllRan = TRUE,
               !.completeCalls = 0,
               !.completedVia = "none"]))))), TRUE))

\* scheduleAutoScatter arms the timer; AutoScatterTimer below is its callback.
scheduleAutoScatter(w0) ==
  Bind(w0, LAMBDA w :
    IF w.autoScatterTimer THEN w ELSE [w EXCEPT !.autoScatterTimer = TRUE])

completeScatter_noReschedule(w0) ==
  Bind(w0, LAMBDA w :
    IF ~w.scatterActive THEN w
    ELSE IF w.pendingForcedScatter
    THEN IF w.globalExplosionActive
         THEN scheduleAutoScatter([w EXCEPT !.scatterActive = FALSE])
         ELSE scatterAll([w EXCEPT !.scatterActive = FALSE,
                                   !.pendingForcedScatter = FALSE], TRUE)
    ELSE [w EXCEPT !.scatterActive = FALSE])

completeScatter(w0) ==
  Bind(w0, LAMBDA w :
    IF ~w.scatterActive THEN w
    ELSE IF w.pendingForcedScatter
    THEN IF w.globalExplosionActive
         THEN scheduleAutoScatter([w EXCEPT !.scatterActive = FALSE])
         ELSE scatterAll([w EXCEPT !.scatterActive = FALSE,
                                   !.pendingForcedScatter = FALSE], TRUE)
    ELSE scheduleAutoScatter([w EXCEPT !.scatterActive = FALSE]))

\* ensureScatterCompletionGuard arms the guard; ScatterCompletionGuardTimer
\* below is its callback.
ensureScatterCompletionGuard(w0) ==
  Bind(w0, LAMBDA w :
    IF w.scatterCompletionGuard THEN w
    ELSE [w EXCEPT !.scatterCompletionGuard = TRUE])

\* the first scatter of a glyph cell in a cycle: flag, count, guard, start
MarkTextCellScattered(w0, textIndex) ==
  Bind(ensureScatterCompletionGuard(
         [w0 EXCEPT !.textScatterFlags[textIndex] = 1,
                    !.textRevealTriggered[textIndex] = 1,
                    !.remainingTextCells = @ - 1]),
       LAMBDA a :
         IF ~a.scatterStarted
         THEN onScatterStart([a EXCEPT !.scatterStarted = TRUE])
         ELSE a)

\* a variant of scatterCell that counts a duplicate scatter of a glyph cell
scatterCell_countsDuplicates(w0, cellIndex, intensity, allowDuplicate, rnd) ==
  IF cellIndex # Undefined /\ (cellIndex < 0 \/ cellIndex >= GRID_SIZE * GRID_SIZE)
  THEN w0
  ELSE
    Bind(w0, LAMBDA w :
    Bind(IF cellIndex = Undefined THEN Undefined ELSE cellIndexLookup[cellIndex],
         LAMBDA textIndex :
    Bind(textIndex # Undefined /\ textIndex # NoText, LAMBDA known :
      IF known /\ ~allowDuplicate /\ w.textScatterFlags[textIndex] = 1 THEN w
      ELSE
        Bind(spawnScatterParticle(
               IF known /\ w.textScatterFlags[textIndex] = 0
               THEN MarkTextCellScattered(w, textIndex)
               ELSE [w EXCEPT !.duplicateSpawn = known,
                              !.remainingTextCells =
                                 IF known THEN @ - 1 ELSE @],
               cellIndex, intensity, rnd),
             LAMBDA w2 :
               IF (cellIndex = Undefined \/ textIndex # NoText)
                  /\ ~w2.scatterComplete /\ w2.remainingTextCells <= 0
               THEN completeScatter(
                      onScatterComplete(
                        [clearScatterCompletionGuard(w2)
                           EXCEPT !.scatterComplete = TRUE],
                        "last"))
               ELSE w2))))

\* cellIndex is Undefined when the caller read past the end of the queue
scatterCell(w0, cellIndex, intensity, allowDuplicate, rnd) ==
  IF cellIndex # Undefined /\ (cellIndex < 0 \/ cellIndex >= GRID_SIZE * GRID_SIZE)
  THEN w0
  ELSE
    Bind(w0, LAMBDA w :
    Bind(IF cellIndex = Undefined THEN Undefined ELSE cellIndexLookup[cellIndex],
         LAMBDA textIndex :
    Bind(textIndex # Undefined /\ textIndex # NoText, LAMBDA known :
      IF known /\ ~allowDuplicate /\ w.textScatterFlags[textIndex] = 1 THEN w
      ELSE
        Bind(spawnScatterParticle(
               IF known /\ w.textScatterFlags[textIndex] = 0
               THEN MarkTextCellScattered(w, textIndex)
               ELSE [w EXCEPT !.duplicateSpawn = known],
               cellIndex, intensity, rnd),
             LAMBDA w2 :
               IF (cellIndex = Undefined \/ textIndex # NoText)
                  /\ ~w2.scatterComplete /\ w2.remainingTextCells <= 0
               THEN completeScatter(
                      onScatterComplete(
                        [clearScatterCompletionGuard(w2)
                           EXCEPT !.scatterComplete = TRUE],
                        "last"))
               ELSE w2))))

(* ---------------------------------------------------------------------- *)
(* Global explosion: per-frame update                                     *)
(* ---------------------------------------------------------------------- *)
StepExplosionParticle(p0, delta) ==
  Bind(p0, LAMBDA p :
  Bind(Pow(GLOBAL_EXPLOSION_DRAG, delta), LAMBDA dragStep :
  Bind(Scale(p.vx, dragStep), LAMBDA vx :
  Bind(Scale(p.vy + (GLOBAL_EXPLOSION_GRAVITY * delta) \div 100, dragStep),
       LAMBDA vy :
    [ x |-> p.x + (vx * delta) \div 100,
      y |-> p.y + (vy * delta) \div 100,
      vx |-> vx, vy |-> vy,
      intensity |->
        Scale(p.intensity, Pow(GLOBAL_EXPLOSION_INTENSITY_DECAY, delta)) ]))))

ExplosionParticleSurvives(p) ==
  /\ p.intensity > MIN_VISIBLE_INTENSITY
  /\ ~(p.x < 0 - 100 \/ p.x > GRID_SIZE * 100
         \/ p.y < 0 - 100 \/ p.y > (GRID_SIZE + 6) * 100)

\* a variant of the deposit in which the last particle of a cell wins
ExplosionDeposit_lastWins(intensities, p) ==
  IF p.x >= 0 /\ p.x < GRID_SIZE * 100 /\ p.y >= 0 /\ p.y < GRID_SIZE * 100
  THEN [intensities EXCEPT ![(p.y \div 100) * GRID_SIZE + (p.x \div 100)] =
          Min(1000, p.intensity)]
  ELSE intensities

\* one surviving particle's contribution to the intensity snapshot
ExplosionDeposit(intensities, p) ==
  IF p.x >= 0 /\ p.x < GRID_SIZE * 100 /\ p.y >= 0 /\ p.y < GRID_SIZE * 100
     /\ intensities[(p.y \div 100) * GRID_SIZE + (p.x \div 100)]
          < Min(1000, p.intensity)
  THEN [intensities EXCEPT ![(p.y \div 100) * GRID_SIZE + (p.x \div 100)] =
          Min(1000, p.intensity)]
  ELSE intensities

\* the loop of updateGlobalExplosion over particles[index ..]
RECURSIVE ExplosionLoop(_, _, _, _, _)
ExplosionLoop(particles, index, delta, intensities0, nextParticles0) ==
  IF index > Len(particles)
  THEN [intensities |-> intensities0, nextParticles |-> nextParticles0]
  ELSE
    Bind(intensities0, LAMBDA intensities :
    Bind(nextParticles0, LAMBDA nextParticles :
    Bind(StepExplosionParticle(particles[index], delta), LAMBDA p :
      IF ~ExplosionParticleSurvives(p)
      THEN ExplosionLoop(particles, index + 1, delta, intensities, nextParticles)
      ELSE ExplosionLoop(particles, index + 1, delta,
                         ExplosionDeposit(intensities, p),
                         Append(nextParticles, p)))))

\* returns the new state and the function's result
updateGlobalExplosion(w0, delta) ==
  Bind(w0, LAMBDA w :
    IF ~w.globalExplosionActive THEN [w |-> w, r |-> FALSE]
    ELSE IF Len(w.globalExplosionParticles) = 0
    THEN [w |-> [w EXCEPT !.globalExplosionActive = FALSE,
                          !.intensities = ZeroCells],
          r |-> FALSE]
    ELSE
      Bind(ExplosionLoop(w.globalExplosionParticles, 1, delta, ZeroCells, <<>>),
           LAMBDA out :
             IF Len(out.nextParticles) = 0
             THEN [w |-> [w EXCEPT !.globalExplosionActive = FALSE,
                                   !.globalExplosionParticles = <<>>,
                                   !.intensities = ZeroCells],
                   r |-> FALSE]
             ELSE [w |-> [w EXCEPT !.globalExplosionParticles = out.nextParticles,
                                   !.intensities = out.intensities],
                   r |-> TRUE]))

(* ---------------------------------------------------------------------- *)
(* Scatter particles: per-frame update                                    *)
(* ---------------------------------------------------------------------- *)
\* computeCurlNoise is a trigonometric field of position and time; the model
\* takes its value for a frame as an input drawn from CurlDraws (hundredths
\* of a cell per frame; the field's components lie within [-2, 2]).
CurlDraws == { [x |-> 0, y |-> 0] }
SCATTER_PARTICLE_CURL_DEFAULT == 25

StepScatterParticle(p0, delta, curl) ==
  Bind(p0, LAMBDA p :
  Bind(Pow(SCATTER_PARTICLE_DRAG, delta), LAMBDA dragStep :
  Bind(Scale(p.vx, dragStep), LAMBDA vx :
  Bind(Scale(p.vy, dragStep), LAMBDA vy :
    [p EXCEPT
       !.x = @ + (vx * delta) \div 100,
       !.y = @ + (vy * delta) \div 100,
       !.intensity = Scale(@, Pow(SCATTER_PARTICLE_INTENSITY_DECAY, delta)),
       !.ageMs = @ + (delta * SCATTER_PARTICLE_FRAME_MS) \div 100,
       !.vx = IF SCATTER_PARTICLE_CURL_DEFAULT > 0
              THEN vx + (curl.x * SCATTER_PARTICLE_CURL_DEFAULT * delta) \div 10000
              ELSE vx,
       !.vy = IF SCATTER_PARTICLE_CURL_DEFAULT > 0
              THEN vy + (curl.y * SCATTER_PARTICLE_CURL_DEFAULT * delta) \div 10000
              ELSE vy]))))

\* a surviving particle lights its cell and, on entering a new cell, the one
\* it left
TrailDeposit(w0, p, cellIndex) ==
  Bind(depositIntensity(w0, cellIndex, clamp(p.intensity, 0, 1000)), LAMBDA w1 :
    IF p.lastCellIndex # cellIndex
    THEN depositIntensity(w1, p.lastCellIndex,
                          clamp((p.intensity * 9) \div 10, 0, 1000))
    ELSE w1)

\* the loop of updateScatterParticles over particles[index ..]
RECURSIVE ScatterParticleLoop(_, _, _, _, _, _)
ScatterParticleLoop(w0, particles, index, delta, curl, nextParticles0) ==
  Bind(w0, LAMBDA w :
  Bind(nextParticles0, LAMBDA nextParticles :
    IF index > Len(particles)
    THEN [w |-> [w EXCEPT !.scatterParticles = nextParticles],
          r |-> Len(nextParticles) > 0]
    ELSE
      Bind(StepScatterParticle(particles[index], delta, curl), LAMBDA p :
      Bind((p.y \div 100) * GRID_SIZE + (p.x \div 100), LAMBDA cellIndex :
        IF p.intensity <= SCATTER_PARTICLE_MIN_INTENSITY
           \/ p.ageMs >= SCATTER_PARTICLE_MAX_AGE_MS
           \/ ~InGrid(p.x \div 100, p.y \div 100)
        THEN ScatterParticleLoop(w, particles, index + 1, delta, curl, nextParticles)
        ELSE ScatterParticleLoop(
               TrailDeposit(w, p, cellIndex), particles, index + 1, delta, curl,
               Append(nextParticles,
                      IF p.lastCellIndex # cellIndex
                      THEN [p EXCEPT !.lastCellIndex = cellIndex] ELSE p))))))

updateScatterParticles(w0, delta, curl) ==
  Bind(w0, LAMBDA w :
    IF Len(w.scatterParticles) = 0 THEN [w |-> w, r |-> FALSE]
    ELSE ScatterParticleLoop(w, w.scatterParticles, 1, delta, curl, <<>>))

(* ---------------------------------------------------------------------- *)
(* Intensity decay and the sweep reveal                                   *)
(* ---------------------------------------------------------------------- *)
\* the sweep loop of decayIntensities over the glyph cells textCells: the
\* text indices it newly reveals, in textCells order
SweepRevealed(textCells, ratios, flags, triggered, progress) ==
  SelectSeq([k \in 1 .. Len(textCells) |-> k],
            LAMBDA k : /\ flags[k] = 0
                       /\ computeSweepReveal(progress, ratios[textCells[k]]) >= 1
                       /\ triggered[k] = 0)

\* text indices the sweep newly reveals, in cellIndices order
NewlyRevealed(w) ==
  SweepRevealed(cellIndices, revealRatios, w.textScatterFlags,
                w.textRevealTriggered, w.textRevealProgress)

\* a variant of the decay loop that leaves the age of a cell released by age
DecayCell_keepsAge(value, age, delta) ==
  IF value <= MIN_VISIBLE_INTENSITY THEN [v |-> 0, a |-> 0, off |-> TRUE]
  ELSE
    Bind(age + (delta * SCATTER_PARTICLE_FRAME_MS) \div 100, LAMBDA aged :
    Bind(Scale(value, Pow(DECAY_FACTOR, delta)), LAMBDA next :
      IF aged >= TRAIL_RELEASE_MAX_AGE_MS THEN [v |-> 0, a |-> aged, off |-> TRUE]
      ELSE IF next <= MIN_VISIBLE_INTENSITY THEN [v |-> 0, a |-> 0, off |-> TRUE]
      ELSE [v |-> next, a |-> aged, off |-> FALSE]))

\* one cell of the decay loop: the next (intensity, age, release) of the cell
DecayCell(value, age, delta) ==
  IF value <= MIN_VISIBLE_INTENSITY THEN [v |-> 0, a |-> 0, off |-> TRUE]
  ELSE
    Bind(age + (delta * SCATTER_PARTICLE_FRAME_MS) \div 100, LAMBDA aged :
    Bind(Scale(value, Pow(DECAY_FACTOR, delta)), LAMBDA next :
      IF aged >= TRAIL_RELEASE_MAX_AGE_MS THEN [v |-> 0, a |-> 0, off |-> TRUE]
      ELSE IF next <= MIN_VISIBLE_INTENSITY THEN [v |-> 0, a |-> 0, off |-> TRUE]
      ELSE [v |-> next, a |-> aged, off |-> FALSE]))

\* whether some unscattered glyph cell is partly revealed by the sweep
PartialReveal(w) ==
  \E k \in 1 .. TextCount :
    /\ w.textScatterFlags[k] = 0
    /\ computeSweepReveal(w.textRevealProgress, revealRatios[cellIndices[k]]) > 0
    /\ computeSweepReveal(w.textRevealProgress, revealRatios[cellIndices[k]]) < 1

\* the earlier variant of the decay pass: unscattered glyph cells are set to
\* full intensity before the field decays
decayIntensities_forcesGlow(w0, suppressIntroGlow, delta) ==
  Bind([w0 EXCEPT !.intensities =
          [c \in Cells |->
             IF ~suppressIntroGlow /\ cellIndexLookup[c] # NoText
                /\ w0.textScatterFlags[cellIndexLookup[c]] = 0
             THEN 1000 ELSE @[c]]], LAMBDA w :
  Bind([c \in Cells |-> DecayCell(w.intensities[c], w.intensityAge[c], delta)],
       LAMBDA cell :
    [w |-> [w EXCEPT
              !.intensities = [c \in Cells |-> cell[c].v],
              !.intensityAge = [c \in Cells |-> cell[c].a],
              !.highlightActiveFlags =
                 [c \in Cells |-> IF cell[c].off THEN 0 ELSE @[c]]],
     r |-> \E c \in Cells : ~cell[c].off ]))

decayIntensities(w0, suppressIntroGlow, delta) ==
  Bind(w0, LAMBDA w :
  Bind(IF suppressIntroGlow THEN <<>> ELSE NewlyRevealed(w), LAMBDA revealed :
  Bind([c \in Cells |-> DecayCell(w.intensities[c], w.intensityAge[c], delta)],
       LAMBDA cell :
    [w |-> [w EXCEPT
              !.textRevealTriggered =
                 [k \in 1 .. TextCount |->
                    IF \E i \in 1 .. Len(revealed) : revealed[i] = k
                    THEN 1 ELSE @[k]],
              !.pendingTextScatter =
                 @ \o [i \in 1 .. Len(revealed) |-> cellIndices[revealed[i]]],
              !.intensities = [c \in Cells |-> cell[c].v],
              !.intensityAge = [c \in Cells |-> cell[c].a],
              !.highlightActiveFlags =
                 [c \in Cells |-> IF cell[c].off THEN 0 ELSE @[c]]],
     r |-> (~suppressIntroGlow /\ PartialReveal(w))
             \/ \E c \in Cells : ~cell[c].off ])))

(* ---------------------------------------------------------------------- *)
(* Rendering: the only state draw() touches is the highlight list         *)
(* ---------------------------------------------------------------------- *)
SwapRemove(list, i) ==
  SubSeq([list EXCEPT ![i] = list[Len(list)]], 1, Len(list) - 1)

\* the highlight loop of draw, from listIndex down to the first entry
RECURSIVE HighlightLoop(_, _)
HighlightLoop(w0, listIndex) ==
  IF listIndex < 1 THEN w0
  ELSE
    Bind(w0, LAMBDA w :
      IF listIndex > Len(w.highlightActive) THEN HighlightLoop(w, listIndex - 1)
      ELSE IF w.highlightActiveFlags[w.highlightActive[listIndex]] = 0
      THEN HighlightLoop(
             [w EXCEPT !.highlightActive = SwapRemove(@, listIndex)],
             listIndex - 1)
      ELSE IF w.intensities[w.highlightActive[listIndex]] <= MIN_VISIBLE_INTENSITY
      THEN HighlightLoop(
             [w EXCEPT !.highlightActiveFlags[w.highlightActive[listIndex]] = 0,
                       !.highlightActive = SwapRemove(@, listIndex)],
             listIndex - 1)
      ELSE HighlightLoop(w, listIndex - 1))

\* canvasRef.current is null once the component is unmounted
draw(w0) ==
  Bind(w0, LAMBDA w :
    IF w.unmounted THEN w
    ELSE IF w.globalExplosionActive /\ Len(w.globalExplosionParticles) > 0 THEN w
    ELSE HighlightLoop(w, Len(w.highlightActive)))

(* ---------------------------------------------------------------------- *)
(* The frame callback                                                     *)
(* ---------------------------------------------------------------------- *)
\* the batch loop of frame: pendingScatter aliases pendingTextScatterRef's
\* array, so an entry emptied by a scatter-all inside the loop reads undefined
RECURSIVE ScatterBatch(_, _, _, _)
ScatterBatch(w0, index, take, rnd) ==
  IF index > take THEN w0
  ELSE
    Bind(w0, LAMBDA w :
      ScatterBatch(
        scatterCell(w,
                    IF index <= Len(w.pendingTextScatter)
                    THEN w.pendingTextScatter[index] ELSE Undefined,
                    1000, FALSE, rnd),
        index + 1, take, rnd))

\* a variant of the drain without the batch limit
DrainPendingScatter_whole(w0, rnd) ==
  Bind(w0, LAMBDA w :
    IF Len(w.pendingTextScatter) = 0 THEN w
    ELSE
      Bind(Len(w.pendingTextScatter), LAMBDA take :
        [ScatterBatch(w, 1, take, rnd) EXCEPT
           !.pendingTextScatter = SubSeq(@, Min(take, Len(@)) + 1, Len(@))]))

DrainPendingScatter(w0, rnd) ==
  Bind(w0, LAMBDA w :
    IF Len(w.pendingTextScatter) = 0 THEN w
    ELSE
      Bind(Min(BATCH_SIZE, Len(w.pendingTextScatter)), LAMBDA take :
        [ScatterBatch(w, 1, take, rnd) EXCEPT
           !.pendingTextScatter = SubSeq(@, Min(take, Len(@)) + 1, Len(@))]))

shouldContinue_noPhase(phaseRef, hasEnergy, explosionHasEnergy, explosionActive, needsReveal, framePending) ==
  hasEnergy \/ explosionHasEnergy \/ explosionActive \/ needsReveal \/ framePending

shouldContinue(phaseRef, hasEnergy, explosionHasEnergy, explosionActive, needsReveal, framePending) ==
  \/ phaseRef # "grid"
  \/ hasEnergy
  \/ explosionHasEnergy
  \/ explosionActive
  \/ needsReveal
  \/ framePending

\* the end of frame, once the subsystems ex, de and sp have run and w3 is drawn
FinishFrame(w3, deltaMs, frameDelta, ex, de, sp) ==
  Bind(w3.textRevealProgress < TEXT_REVEAL_DURATION_MS, LAMBDA needsReveal :
  Bind([w3 EXCEPT
          !.frameRunning = FALSE,
          !.frameReport =
             [ ran |-> TRUE, deltaMs |-> deltaMs, frameDelta |-> frameDelta,
               explosionHasEnergy |-> ex, intensityHasEnergy |-> de,
               particlesHaveEnergy |-> sp, needsReveal |-> needsReveal,
               explosionActive |-> w3.globalExplosionActive,
               framePending |-> w3.framePending, phaseRef |-> w3.phaseRef ]],
       LAMBDA w4 :
    IF shouldContinue(w3.phaseRef, ex \/ de \/ sp, ex, w3.globalExplosionActive,
                      needsReveal, w3.framePending)
    THEN requestAnimationFrame([w4 EXCEPT !.framePending = FALSE])
    ELSE [w4 EXCEPT !.lastFrameTime = "null"]))

\* a variant of frame that does not cap the frame delta
frame_uncapped(w0, gap, rnd, curl) ==
  Bind(w0, LAMBDA w :
  Bind(IF w.lastFrameTime = "null" THEN BASELINE_DELTA_MS ELSE gap, LAMBDA deltaMs :
  Bind((deltaMs * 100) \div SCATTER_PARTICLE_FRAME_MS, LAMBDA frameDelta :
  Bind(updateGlobalExplosion(
         [w EXCEPT
            !.frameRunning = TRUE,
            !.framePending = FALSE,
            !.lastFrameTime = "ts",
            !.animationFrame = Null,
            !.textRevealProgress =
               IF @ < TEXT_REVEAL_DURATION_MS
               THEN Min(TEXT_REVEAL_DURATION_MS, @ + deltaMs) ELSE @,
            !.frameClock =
               [fresh |-> w.lastFrameTime = "null",
                reveal |-> IF w.textRevealProgress < TEXT_REVEAL_DURATION_MS
                           THEN Min(TEXT_REVEAL_DURATION_MS,
                                    w.textRevealProgress + deltaMs)
                                  - w.textRevealProgress
                           ELSE 0]],
         frameDelta), LAMBDA ex :
  Bind(decayIntensities(ex.w, ex.r, frameDelta), LAMBDA de :
  Bind(updateScatterParticles(DrainPendingScatter(de.w, rnd), frameDelta, curl),
       LAMBDA sp :
    Bind(draw(sp.w), LAMBDA w3 :
      FinishFrame(w3, deltaMs, frameDelta, ex.r, de.r, sp.r))))))))

\* frame(timestamp): gap is timestamp - lastTimestamp as the host reports it.
\* noiseTimeRef only feeds computeCurlNoise (an input here) and is not kept.
frame(w0, gap, rnd, curl) ==
  Bind(w0, LAMBDA w :
  Bind(IF w.lastFrameTime = "null" THEN BASELINE_DELTA_MS ELSE gap, LAMBDA deltaMs :
  Bind(Min((deltaMs * 100) \div SCATTER_PARTICLE_FRAME_MS, MAX_FRAME_DELTA),
       LAMBDA frameDelta :
  Bind(updateGlobalExplosion(
         [w EXCEPT
            !.frameRunning = TRUE,
            !.framePending = FALSE,
            !.lastFrameTime = "ts",
            !.animationFrame = Null,
            !.textRevealProgress =
               IF @ < TEXT_REVEAL_DURATION_MS
               THEN Min(TEXT_REVEAL_DURATION_MS, @ + deltaMs) ELSE @,
            !.frameClock =
               [fresh |-> w.lastFrameTime = "null",
                reveal |-> IF w.textRevealProgress < TEXT_REVEAL_DURATION_MS
                           THEN Min(TEXT_REVEAL_DURATION_MS,
                                    w.textRevealProgress + deltaMs)
                                  - w.textRevealProgress
                           ELSE 0]],
         frameDelta), LAMBDA ex :
  Bind(decayIntensities(ex.w, ex.r, frameDelta), LAMBDA de :
  Bind(updateScatterParticles(DrainPendingScatter(de.w, rnd), frameDelta, curl),
       LAMBDA sp :
    Bind(draw(sp.w), LAMBDA w3 :
      FinishFrame(w3, deltaMs, frameDelta, ex.r, de.r, sp.r))))))))

(* ---------------------------------------------------------------------- *)
(* Global explosion: start                                                *)
(* ---------------------------------------------------------------------- *)
ISqrt(n) == CHOOSE r \in 0 .. n : r * r <= n /\ (r + 1) * (r + 1) > n

\* Math.hypot(dx, dy) in hundredths of a cell
Hypot(dx, dy) == ISqrt(10000 * (dx * dx + dy * dy))

\* one draw of the two Math.random() calls of a burst: the speed and the
\* jitter rotation (cos, sin in hundredths)
ExplosionDraws ==
  { [speed |-> GLOBAL_EXPLOSION_BASE_SPEED + GLOBAL_EXPLOSION_SPEED_JITTER,
     cos |-> 96, sin |-> 30] }

ExplosionParticleAt(cellIndex, originX, originY, rnd) ==
  Bind(CellX(cellIndex) - originX, LAMBDA dx :
  Bind(CellY(cellIndex) - originY, LAMBDA dy :
  Bind(Hypot(dx, dy), LAMBDA hyp :
  Bind(IF hyp = 0 THEN 100 ELSE hyp, LAMBDA distance :
  Bind((dx * 10000) \div distance, LAMBDA directionX :
  Bind((dy * 10000) \div distance, LAMBDA directionY :
    [ x |-> CellX(cellIndex) * 100 + 50,
      y |-> CellY(cellIndex) * 100 + 50,
      vx |-> (((directionX * rnd.cos - directionY * rnd.sin) \div 100)
                * rnd.speed) \div 100,
      vy |-> (((directionX * rnd.sin + directionY * rnd.cos) \div 100)
                * rnd.speed) \div 100 - (rnd.speed * 45) \div 100,
      intensity |-> IF mask[cellIndex] > 0
                    THEN clamp((mask[cellIndex] * 125) \div 100, 400, 1000)
                    ELSE 350 ]))))))

\* the draws of a burst, one per cell: here every particle draws the same
ExplosionBursts == { [c \in Cells |-> d] : d \in ExplosionDraws }

\* coords is the event's cell, or NoCoords when getCellFromEvent returns null;
\* rnd[c] is the draw of the particle of cell c
startGlobalExplosion(w0, coords, rnd) ==
  Bind(w0, LAMBDA w :
    IF w.globalExplosionActive THEN w
    ELSE
      Bind(IF coords = NoCoords THEN GRID_SIZE \div 2 ELSE CellX(coords),
           LAMBDA originX :
      Bind(IF coords = NoCoords THEN GRID_SIZE \div 2 ELSE CellY(coords),
           LAMBDA originY :
      Bind(completeScatter(
             [BeforeReset(w) EXCEPT !.globalExplosionParticles =
                          [i \in 1 .. GRID_SIZE * GRID_SIZE |->
                             ExplosionParticleAt(i - 1, originX, originY, rnd[i - 1])],
                       !.globalExplosionActive = TRUE,
                       !.interactiveEnabled = FALSE]), LAMBDA w2 :
        [scheduleFrame(
           AfterReset(
             [clearScatterCompletionGuard(clearRippleTimers(
                clearExplosionTimers(clearScatterTimers(w2))))
                EXCEPT !.intensities = ZeroCells, !.lastFrameTime = "null"]),
           TRUE)
           EXCEPT !.interactiveEnableTimer = TRUE,
                  !.explosionStarts = Min(@ + 1, 2)]))))

(* ---------------------------------------------------------------------- *)
(* Pointer effects                                                        *)
(* ---------------------------------------------------------------------- *)
EXPLOSION_DURATION_MS == 1140

\* cooled: whether performance.now() lies at least the spawn cooldown after
\* the cell's last spawn (an input: the model keeps no wall clock)
trySpawnParticleForHighlight_noCooldown(w0, cellIndex, intensity, cooled, rnd) ==
  IF cellIndex < 0 \/ cellIndex >= GRID_SIZE * GRID_SIZE \/ intensity <= 0 THEN w0
  ELSE
    Bind(w0, LAMBDA w :
      spawnScatterParticle(
        [w EXCEPT !.lastParticleSpawn[cellIndex] = "spawned",
                  !.highlightSpawn =
                     [made |-> TRUE, cell |-> cellIndex, cooled |-> cooled,
                      stamped |-> w.lastParticleSpawn[cellIndex] # "never"]],
        cellIndex, intensity, rnd))

\* cooled: whether SCATTER_PARTICLE_SPAWN_COOLDOWN_MS have gone by since the
\* stamp in lastParticleSpawnRef[cellIndex]
trySpawnParticleForHighlight(w0, cellIndex, intensity, cooled, rnd) ==
  IF cellIndex < 0 \/ cellIndex >= GRID_SIZE * GRID_SIZE \/ intensity <= 0 THEN w0
  ELSE
    Bind(w0, LAMBDA w :
      IF w.lastParticleSpawn[cellIndex] # "never" /\ ~cooled THEN w
      ELSE spawnScatterParticle(
             [w EXCEPT !.lastParticleSpawn[cellIndex] = "spawned",
                       !.highlightSpawn =
                          [made |-> TRUE, cell |-> cellIndex, cooled |-> cooled,
                           stamped |-> w.lastParticleSpawn[cellIndex] # "never"]],
             cellIndex, intensity, rnd))

\* a variant of igniteCell that adds the ignition to the cell's intensity
\* instead of taking the larger of the two
igniteCell_adds(w0, cellX, cellY, intensity, cooled, rnd) ==
  IF ~InGrid(cellX, cellY) THEN w0
  ELSE
    Bind(cellY * GRID_SIZE + cellX, LAMBDA index :
    Bind(Min(Max(intensity, 0), 1000), LAMBDA clamped :
    Bind([w0 EXCEPT !.intensities[index] = @ + clamped,
                    !.intensityAge[index] = 0], LAMBDA w1 :
      scheduleFrame(
        IF clamped >= 900
        THEN trySpawnParticleForHighlight(w1, index, clamped, cooled, rnd)
        ELSE w1,
        FALSE))))

igniteCell(w0, cellX, cellY, intensity, cooled, rnd) ==
  IF ~InGrid(cellX, cellY) THEN w0
  ELSE
    Bind(cellY * GRID_SIZE + cellX, LAMBDA index :
    Bind(Min(Max(intensity, 0), 1000), LAMBDA clamped :
    Bind([w0 EXCEPT !.intensities[index] = Max(@, clamped),
                    !.intensityAge[index] = 0], LAMBDA w1 :
      scheduleFrame(
        IF clamped >= 900
        THEN trySpawnParticleForHighlight(w1, index, clamped, cooled, rnd)
        ELSE w1,
        FALSE))))

RIPPLE_OFFSETS ==
  << <<1, 0>>, <<0 - 1, 0>>, <<0, 1>>, <<0, 0 - 1>>,
     <<1, 1>>, <<1, 0 - 1>>, <<0 - 1, 1>>, <<0 - 1, 0 - 1>> >>

\* a variant of the spread that repeats the four side neighbours in place of
\* the four diagonal ones
RipplePushed_sides(e) ==
  [i \in 1 .. Len(RIPPLE_OFFSETS) |->
     [x |-> e.x + RIPPLE_OFFSETS[((i - 1) % 4) + 1][1],
      y |-> e.y + RIPPLE_OFFSETS[((i - 1) % 4) + 1][2],
      intensity |-> e.intensity \div 2, depth |-> e.depth + 1]]

\* the entries a visited ripple cell pushes on the queue
RipplePushed(e) ==
  [i \in 1 .. Len(RIPPLE_OFFSETS) |->
     [x |-> e.x + RIPPLE_OFFSETS[i][1],
      y |-> e.y + RIPPLE_OFFSETS[i][2],
      intensity |-> e.intensity \div 2, depth |-> e.depth + 1]]

\* the entries of a stretch of the queue that the loop does not skip: those
\* inside the grid whose cell is not yet visited, by an earlier stretch or by
\* an earlier entry of this one
RippleKept(level, visited, gridSize) ==
  Bind({ k \in 1 .. Len(level) :
           /\ level[k].x >= 0 /\ level[k].x < gridSize
           /\ level[k].y >= 0 /\ level[k].y < gridSize
           /\ <<level[k].x, level[k].y>> \notin visited
           /\ \A j \in 1 .. k - 1 :
                level[j].x # level[k].x \/ level[j].y # level[k].y }, LAMBDA idx :
    [i \in 1 .. Cardinality(idx) |->
       level[CHOOSE k \in idx : Cardinality({ j \in idx : j <= k }) = i]])

\* the breadth-first loop of applyRipple, one depth of the queue at a time
\* (the queue holds the entries of depth d before those of depth d + 1, each
\* depth in the order its entries were pushed); returns the timers registered
RECURSIVE RippleLoop(_, _, _, _, _)
RippleLoop(level, visited, timers, gridSize, minIntensity) ==
  IF level = <<>> THEN timers
  ELSE
    Bind(RippleKept(level, visited, gridSize), LAMBDA kept :
    Bind(SelectSeq(kept, LAMBDA e : e.intensity \div 2 >= minIntensity),
         LAMBDA spreading :
      RippleLoop(
        [i \in 1 .. Len(RIPPLE_OFFSETS) * Len(spreading) |->
           RipplePushed(spreading[((i - 1) \div Len(RIPPLE_OFFSETS)) + 1])
             [((i - 1) % Len(RIPPLE_OFFSETS)) + 1]],
        visited \cup { <<kept[i].x, kept[i].y>> : i \in 1 .. Len(kept) },
        timers \o [i \in 1 .. Len(kept) |->
                     [x |-> kept[i].x, y |-> kept[i].y,
                      intensity |-> kept[i].intensity,
                      delay |-> kept[i].depth, stale |-> FALSE]],
        gridSize, minIntensity)))

\* a variant of applyRipple that leaves the pending ignitions of the
\* previous ripple in place
applyRippleFrom_keepsPending(w0, cellX, cellY, minIntensity) ==
  [w0 EXCEPT !.rippleTimers =
     @ \o RippleLoop(<<[x |-> cellX, y |-> cellY, intensity |-> 1000, depth |-> 0]>>,
                     {}, <<>>, GRID_SIZE, minIntensity)]

\* applyRipple with MIN_RIPPLE_INTENSITY = minIntensity
applyRippleFrom(w0, cellX, cellY, minIntensity) ==
  [clearRippleTimers(w0) EXCEPT !.rippleTimers =
     @ \o RippleLoop(<<[x |-> cellX, y |-> cellY, intensity |-> 1000, depth |-> 0]>>,
                     {}, <<>>, GRID_SIZE, minIntensity)]

applyRipple(w0, cellX, cellY) ==
  applyRippleFrom(w0, cellX, cellY, MIN_RIPPLE_INTENSITY)

\* a variant of handlePointerActivation without the interactive-mode gate
handlePointerActivation_ungated(w0, coords, cooled, rnd) ==
  Bind(w0, LAMBDA w :
    IF coords = NoCoords THEN w
    ELSE applyRipple(igniteCell(w, CellX(coords), CellY(coords), 1000, cooled, rnd),
                     CellX(coords), CellY(coords)))

\* handlePointerActivation with MIN_RIPPLE_INTENSITY = minIntensity
handlePointerActivationFrom(w0, coords, cooled, rnd, minIntensity) ==
  Bind(w0, LAMBDA w :
    IF ~w.interactiveEnabled \/ w.globalExplosionActive THEN w
    ELSE IF coords = NoCoords THEN w
    ELSE applyRippleFrom(igniteCell(w, CellX(coords), CellY(coords), 1000, cooled, rnd),
                         CellX(coords), CellY(coords), minIntensity))

handlePointerActivation(w0, coords, cooled, rnd) ==
  handlePointerActivationFrom(w0, coords, cooled, rnd, MIN_RIPPLE_INTENSITY)

\* the pending timers of a list fire by increasing delay, equal delays in the
\* order they were set: insert keeps the list in that order
RECURSIVE InsertByDelay(_, _)
InsertByDelay(timers0, t) ==
  Bind(timers0, LAMBDA timers :
    IF timers = <<>> THEN <<t>>
    ELSE IF t.delay < Head(timers).delay THEN <<t>> \o timers
    ELSE <<Head(timers)>> \o InsertByDelay(Tail(timers), t))

\* the timer triggerExplosion sets for the target cell of a click at
\* (cellX, cellY); radius is EXPLOSION_RADIUS
ClickTimer(cell, cellX, cellY, radius0) ==
  Bind(Hypot(CellX(cell) - cellX, CellY(cell) - cellY), LAMBDA distance :
  Bind(100 * Max(radius0, 1), LAMBDA radius :
    [x |-> CellX(cell), y |-> CellY(cell),
     intensity |-> Max(250, (1000 * radius - 750 * distance) \div radius),
     delay |-> (distance * EXPLOSION_DURATION_MS) \div radius,
     stale |-> FALSE]))

\* a variant of the distance test that takes the square around the click
ExplosionInReach_square(dx, dy, radius) ==
  dx * dx <= radius * radius /\ dy * dy <= radius * radius

\* distance <= EXPLOSION_RADIUS
ExplosionInReach(dx, dy, radius) ==
  dx * dx + dy * dy <= radius * radius

\* the dy/dx loops of triggerExplosion over the in-grid targets from cell on
RECURSIVE ExplosionTimerLoop(_, _, _, _, _)
ExplosionTimerLoop(cell, cellX, cellY, timers0, radius) ==
  IF cell >= GRID_SIZE * GRID_SIZE THEN timers0
  ELSE
    Bind(timers0, LAMBDA timers :
      ExplosionTimerLoop(cell + 1, cellX, cellY,
        IF ~ExplosionInReach(CellX(cell) - cellX, CellY(cell) - cellY, radius)
        THEN timers
        ELSE InsertByDelay(timers, ClickTimer(cell, cellX, cellY, radius)),
        radius))

\* triggerExplosion with EXPLOSION_RADIUS = radius
triggerExplosionWithin(w0, coords, radius) ==
  Bind(w0, LAMBDA w :
    IF ~w.interactiveEnabled \/ w.globalExplosionActive THEN w
    ELSE IF coords = NoCoords THEN w
    ELSE [clearExplosionTimers(w) EXCEPT !.explosionTimers =
            ExplosionTimerLoop(0, CellX(coords), CellY(coords), @, radius)])

triggerExplosion(w0, coords) ==
  triggerExplosionWithin(w0, coords, EXPLOSION_RADIUS)

\* handlePointerDown without the first-interaction latch
handlePointerDown_noFirstCheck(w0, coords, cooled, rnd, burst) ==
  Bind(w0, LAMBDA w :
    startGlobalExplosion([w EXCEPT !.firstInteractionHandled = TRUE],
                         coords, burst))

handlePointerDown(w0, coords, cooled, rnd, burst) ==
  Bind(w0, LAMBDA w :
    IF ~w.firstInteractionHandled
    THEN startGlobalExplosion([w EXCEPT !.firstInteractionHandled = TRUE],
                              coords, burst)
    ELSE IF ~w.interactiveEnabled \/ w.globalExplosionActive THEN w
    ELSE triggerExplosion(handlePointerActivation(w, coords, cooled, rnd), coords))

(* ---------------------------------------------------------------------- *)
(* App (src/unnamed/part_010)                                              *)
(* ---------------------------------------------------------------------- *)
triggerScatterAll(w) == [w EXCEPT !.scatterSignal = @ + 1]
clearIntroTimer(w) == [w EXCEPT !.introTimer = FALSE]

\* App's onPointerDown and its keydown listener share this body
handlePointerInteraction(w0) ==
  Bind(w0, LAMBDA w :
    IF w.phase # "intro" THEN w ELSE triggerScatterAll(clearIntroTimer(w)))

(* ---------------------------------------------------------------------- *)
(* Effects of PixelGrid                                                   *)
(* ---------------------------------------------------------------------- *)
\* useEffect on [scatterAll, scheduleAutoScatter]
autoScatterMountEffect(w) == scheduleAutoScatter(scatterAll(w, TRUE))

\* useEffect on [scatterSignal]; the second effect on scatterSignal further
\* down the component always finds lastScatterSignalRef already updated
scatterSignalEffect_dropsWhenBusy(w0) ==
  Bind(w0, LAMBDA w :
    IF w.scatterSignal = w.lastScatterSignal THEN w
    ELSE IF w.scatterActive \/ w.globalExplosionActive
    THEN [w EXCEPT !.lastScatterSignal = w.scatterSignal]
    ELSE scatterAll([w EXCEPT !.lastScatterSignal = w.scatterSignal], TRUE))

scatterSignalEffect(w0) ==
  Bind(w0, LAMBDA w :
    IF w.scatterSignal = w.lastScatterSignal THEN w
    ELSE IF w.scatterActive \/ w.globalExplosionActive
    THEN [w EXCEPT !.lastScatterSignal = w.scatterSignal,
                   !.pendingForcedScatter = TRUE]
    ELSE scatterAll([w EXCEPT !.lastScatterSignal = w.scatterSignal], TRUE))

\* useEffect on [phase]
phaseEffect(w0) ==
  Bind([w0 EXCEPT !.phaseRef = w0.phase], LAMBDA w1 :
    scheduleFrame(
      IF w1.phase = "intro" /\ w1.scatterStarted
      THEN clearScatterCompletionGuard(clearRippleTimers(
             clearExplosionTimers(clearScatterTimers(
               [w1 EXCEPT
                  !.textScatterFlags = ZeroText,
                  !.remainingTextCells = TextCount,
                  !.scatterStarted = FALSE,
                  !.scatterComplete = FALSE,
                  !.scatterParticles = <<>>,
                  !.pendingTextScatter = <<>>,
                  !.textRevealTriggered = ZeroText,
                  !.highlightActive = <<>>,
                  !.highlightActiveFlags = ZeroCells,
                  !.lastParticleSpawn = [c \in Cells |-> "never"],
                  !.intensities = ZeroCells,
                  !.intensityAge = ZeroCells]))))
      ELSE w1,
      FALSE))

\* the mount effect: resize() draws, then a frame is scheduled
mountEffect(w) == scheduleFrame(draw(w), FALSE)

\* cleanup of the auto-scatter mount effect
autoScatterCleanup(w) == [w EXCEPT !.autoScatterTimer = FALSE]

\* cleanup of the mount effect
unmountCleanup(w0) ==
  Bind(w0, LAMBDA w :
    scheduleFrame(AfterReset(
      [clearScatterCompletionGuard(clearRippleTimers(
         clearExplosionTimers(clearScatterTimers(
           IF w.animationFrame # Null
           THEN cancelAnimationFrame(BeforeReset(w), w.animationFrame)
           ELSE BeforeReset(w)))))
         EXCEPT
           !.globalExplosionActive = FALSE,
           !.globalExplosionParticles = <<>>,
           !.scatterParticles = <<>>,
           !.pendingTextScatter = <<>>,
           !.textRevealTriggered = ZeroText,
           !.highlightActive = <<>>,
           !.highlightActiveFlags = ZeroCells,
           !.lastParticleSpawn = [c \in Cells |-> "never"],
           !.intensities = ZeroCells,
           !.intensityAge = ZeroCells,
           !.lastFrameTime = "null",
           !.interactiveEnableTimer = FALSE,
           !.autoScatterTimer = FALSE]), TRUE))

(* ---------------------------------------------------------------------- *)
(* Initial state: the component and App just mounted, all mount effects    *)
(* run in declaration order, App's intro timer armed                       *)
(* ---------------------------------------------------------------------- *)
Mounted ==
  phaseEffect(mountEffect(scatterSignalEffect(autoScatterMountEffect(
    [RefInit @@ HostInit @@ AppInit @@ HistInit EXCEPT !.introTimer = TRUE]))))

Init ==
  \E m \in {Mounted} :
    /\ ref = [f \in DOMAIN RefInit |-> m[f]]
    /\ host = [f \in DOMAIN HostInit |-> m[f]]
    /\ app = [f \in DOMAIN AppInit |-> m[f]]
    /\ hist = [[f \in DOMAIN HistInit |-> m[f]] EXCEPT !.scatterAllRan = FALSE]
    /\ probe = NoProbe

(* ---------------------------------------------------------------------- *)
(* Actions: one per callback the host or React may run                     *)
(* ---------------------------------------------------------------------- *)
\* where the pointer may hover: a background corner of the grid
MoveCoords == {0}
\* where the pointer may press: a glyph cell, or off the grid (NoCoords)
DownCoords == {NoCoords, GlyphRow * GRID_SIZE + 1}

\* what performance.now() may say about the spawn cooldown of a cell: a cell
\* that never spawned (last spawn at -Infinity) has always cooled
Cooled(cell) ==
  IF cell = NoCoords \/ ref.lastParticleSpawn[cell] = "never" THEN {TRUE}
  ELSE BOOLEAN

(* Timer callbacks *)
autoScatterCallback_noBusyCheck(w0) ==
  Bind([w0 EXCEPT !.autoScatterTimer = FALSE], LAMBDA w :
    IF w.pendingForcedScatter THEN scatterAll(w, TRUE) ELSE scatterAll(w, FALSE))

\* callback of the timer armed by scheduleAutoScatter
autoScatterCallback(w0) ==
  Bind([w0 EXCEPT !.autoScatterTimer = FALSE], LAMBDA w :
    IF w.globalExplosionActive \/ w.scatterActive THEN scheduleAutoScatter(w)
    ELSE IF w.pendingForcedScatter THEN scatterAll(w, TRUE)
    ELSE scatterAll(w, FALSE))

scatterCompletionGuardCallback_noCompleteCheck(w0) ==
  completeScatter(
    onScatterComplete([w0 EXCEPT !.scatterCompletionGuard = FALSE,
                                 !.scatterComplete = TRUE], "guard"))

\* callback of the timer armed by ensureScatterCompletionGuard
scatterCompletionGuardCallback(w0) ==
  Bind([w0 EXCEPT !.scatterCompletionGuard = FALSE], LAMBDA w :
    IF ~w.scatterComplete
    THEN completeScatter(
           onScatterComplete([w EXCEPT !.scatterComplete = TRUE], "guard"))
    ELSE w)

\* the interactive-enable callback, were it to wait for the particles to die
interactiveEnableCallback_onlyIfIdle(w) ==
  IF w.globalExplosionActive /\ w.globalExplosionParticles # <<>>
  THEN [w EXCEPT !.interactiveEnableTimer = FALSE]
  ELSE [w EXCEPT !.interactiveEnableTimer = FALSE,
                 !.interactiveEnabled = TRUE,
                 !.globalExplosionActive = FALSE,
                 !.globalExplosionParticles = <<>>,
                 !.intensities = ZeroCells,
                 !.lastFrameTime = "null"]

\* callback of the timer armed by startGlobalExplosion
interactiveEnableCallback(w) ==
  [w EXCEPT !.interactiveEnableTimer = FALSE,
            !.interactiveEnabled = TRUE,
            !.globalExplosionActive = FALSE,
            !.globalExplosionParticles = <<>>,
            !.intensities = ZeroCells,
            !.lastFrameTime = "null",
            !.explosionCut = w.globalExplosionActive
                               /\ w.globalExplosionParticles # <<>>]

\* callback of a ripple timer t
rippleCallback(w, t, cooled, rnd) ==
  igniteCell(w, t.x, t.y, t.intensity, cooled, rnd)

\* callback of a click-explosion timer t
explosionCallback(w, t, cooled, rnd) ==
  scatterCell(igniteCell(w, t.x, t.y, t.intensity, cooled, rnd),
              t.y * GRID_SIZE + t.x, t.intensity, TRUE, rnd)

\* the host runs an outstanding animation-frame request
Frame ==
  \E id \in host.rafQueue, gap \in FrameGaps, rnd \in SpawnDraws, curl \in CurlDraws :
    Commit(frame([Begin("frame") EXCEPT !.rafQueue = @ \ {id}], gap, rnd, curl))

\* the auto-scatter timer expires
AutoScatterTimer ==
  /\ ref.autoScatterTimer
  /\ Commit(autoScatterCallback(Begin("autoScatterTimer")))

\* the scatter-completion guard timer expires
ScatterCompletionGuardTimer ==
  /\ ref.scatterCompletionGuard
  /\ Commit(scatterCompletionGuardCallback(Begin("scatterCompletionGuard")))

\* the interactive-enable timer expires
InteractiveEnableTimer ==
  /\ ref.interactiveEnableTimer
  /\ Commit(interactiveEnableCallback(Begin("interactiveEnableTimer")))

\* the earliest pending ripple timer fires
RippleTimer ==
  /\ ref.rippleTimers # <<>>
  /\ \E t \in {Head(ref.rippleTimers)}, rnd \in SpawnDraws :
     \E cooled \in Cooled(t.y * GRID_SIZE + t.x) :
       Commit(rippleCallback([Begin("rippleTimer") EXCEPT !.rippleTimers = Tail(@)],
                             t, cooled, rnd))

\* the earliest pending click-explosion timer fires
ExplosionTimer ==
  /\ ref.explosionTimers # <<>>
  /\ \E t \in {Head(ref.explosionTimers)}, rnd \in SpawnDraws :
     \E cooled \in Cooled(t.y * GRID_SIZE + t.x) :
       Commit(explosionCallback(
                [Begin("explosionTimer") EXCEPT !.explosionTimers = Tail(@)],
                t, cooled, rnd))

\* onPointerMove / onPointerEnter of the canvas; the handler's early returns
\* (not interactive, explosion running, pointer off the grid) are the guard
PointerMove ==
  /\ ~host.unmounted
  /\ hist.pointerEvents < MaxPointerEvents
  /\ ref.interactiveEnabled /\ ~ref.globalExplosionActive
  /\ \E coords \in MoveCoords, rnd \in SpawnDraws :
     \E cooled \in Cooled(coords) :
       Commit(handlePointerActivation(
                [Begin("pointerMove") EXCEPT !.pointerEvents = @ + 1],
                coords, cooled, rnd))

\* onPointerDown of the canvas, then (bubbling) of App's root element; when
\* both handlers return early the event is not delivered
PointerDown ==
  /\ ~host.unmounted
  /\ hist.pointerEvents < MaxPointerEvents
  /\ \/ ~ref.firstInteractionHandled
     \/ ref.interactiveEnabled /\ ~ref.globalExplosionActive
     \/ app.phase = "intro"
  /\ \E coords \in DownCoords, rnd \in SpawnDraws, burst \in ExplosionBursts :
     \E cooled \in Cooled(coords) :
       Commit(handlePointerInteraction(handlePointerDown(
                [Begin("pointerDown") EXCEPT !.pointerEvents = @ + 1],
                coords, cooled, rnd, burst)))

\* App's keydown listener (Enter or space), installed during the intro
KeyDown ==
  /\ ~host.unmounted
  /\ app.phase = "intro"
  /\ app.scatterSignal < MaxScatterSignal
  /\ Commit(handlePointerInteraction(Begin("keyDown")))

\* App's intro timer
IntroTimer ==
  /\ app.introTimer
  /\ app.scatterSignal < MaxScatterSignal
  /\ Commit(triggerScatterAll([Begin("introTimer") EXCEPT !.introTimer = FALSE]))

\* App's transition timer
TransitionTimer ==
  /\ app.transitionTimer
  /\ Commit([Begin("transitionTimer") EXCEPT !.phase = "grid",
                                             !.transitionTimer = FALSE])

\* React re-renders PixelGrid with a new scatterSignal and runs the effect
ScatterSignalEffect ==
  /\ ~host.unmounted
  /\ app.scatterSignal # ref.lastScatterSignal
  /\ Commit(scatterSignalEffect(Begin("scatterSignalEffect")))

\* React re-renders PixelGrid with a new phase and runs the effect
PhaseEffect ==
  /\ ~host.unmounted
  /\ app.phase # ref.phaseRef
  /\ Commit(phaseEffect(Begin("phaseEffect")))

\* React unmounts App and PixelGrid: App's cleanup clears its timers, then
\* PixelGrid's effect cleanups run in declaration order
Unmount ==
  /\ ~host.unmounted
  /\ Commit(unmountCleanup(autoScatterCleanup(
       [Begin("unmount") EXCEPT !.unmounted = TRUE,
                                !.introTimer = FALSE,
                                !.transitionTimer = FALSE])))

Next ==
  \/ Frame
  \/ AutoScatterTimer
  \/ ScatterCompletionGuardTimer
  \/ InteractiveEnableTimer
  \/ RippleTimer
  \/ ExplosionTimer
  \/ PointerMove
  \/ PointerDown
  \/ KeyDown
  \/ IntroTimer
  \/ TransitionTimer
  \/ ScatterSignalEffect
  \/ PhaseEffect
  \/ Unmount

Spec == Init /\ [][Next]_vars

\* The first pointer press on the page: the gesture that starts the one-shot
\* global explosion.
FirstPointerDown ==
  /\ hist.pointerEvents = 0
  /\ PointerDown

\* The scatter loop with its one-shot explosion, without later pointer input
\* (hover ripples and click explosions).
FairNext ==
  \/ Frame
  \/ AutoScatterTimer
  \/ ScatterCompletionGuardTimer
  \/ InteractiveEnableTimer
  \/ FirstPointerDown
  \/ KeyDown
  \/ IntroTimer
  \/ TransitionTimer
  \/ ScatterSignalEffect
  \/ PhaseEffect
  \/ Unmount

\* The host runs every queued animation frame and every expired timer, and
\* React runs every effect whose dependency changed; user input and unmount
\* are under no obligation to happen.
Fairness ==
  /\ WF_vars(Frame)
  /\ WF_vars(AutoScatterTimer)
  /\ WF_vars(ScatterCompletionGuardTimer)
  /\ WF_vars(InteractiveEnableTimer)
  /\ WF_vars(IntroTimer)
  /\ WF_vars(TransitionTimer)
  /\ WF_vars(ScatterSignalEffect)
  /\ WF_vars(PhaseEffect)

FairSpec == Init /\ [][FairNext]_vars /\ Fairness

\* the host runs an outstanding animation-frame request after a long pause
FrameAfterPause ==
  \E id \in host.rafQueue, gap \in PauseGaps, rnd \in SpawnDraws, curl \in CurlDraws :
    Commit(frame([Begin("frame") EXCEPT !.rafQueue = @ \ {id}], gap, rnd, curl))

\* The scatter loop with its one-shot explosion on a page that may have been
\* in the background between two frames.
PauseNext ==
  \/ FairNext
  \/ FrameAfterPause

PauseSpec == Init /\ [][PauseNext]_vars

\* onPointerMove / onPointerEnter delivered whatever the mode: the handler
\* decides
PointerMoveDelivered ==
  /\ ~host.unmounted
  /\ hist.pointerEvents < MaxPointerEvents
  /\ \E coords \in MoveCoords, rnd \in SpawnDraws :
     \E cooled \in Cooled(coords) :
       Commit(handlePointerActivation(
                [Begin("pointerMove") EXCEPT !.pointerEvents = @ + 1],
                coords, cooled, rnd))

\* onPointerDown delivered whatever the mode
PointerDownDelivered ==
  /\ ~host.unmounted
  /\ hist.pointerEvents < MaxPointerEvents
  /\ \E coords \in DownCoords, rnd \in SpawnDraws, burst \in ExplosionBursts :
     \E cooled \in Cooled(coords) :
       Commit(handlePointerInteraction(handlePointerDown(
                [Begin("pointerDown") EXCEPT !.pointerEvents = @ + 1],
                coords, cooled, rnd, burst)))

\* Pointer input from the mount on, with the timers it arms and the frames
\* in between.
GateNext ==
  \/ PointerMoveDelivered
  \/ PointerDownDelivered
  \/ InteractiveEnableTimer
  \/ RippleTimer
  \/ ExplosionTimer
  \/ Frame

GateSpec == Init /\ [][GateNext]_vars

\* The scatter loop with its one-shot explosion and the hover that follows
\* it, on a page that may have been in the background between two frames:
\* the sweep can queue more glyph cells than one frame scatters, and hover
\* highlights can fill the particle pool meanwhile.
BacklogNext ==
  \/ Frame
  \/ FrameAfterPause
  \/ AutoScatterTimer
  \/ ScatterCompletionGuardTimer
  \/ InteractiveEnableTimer
  \/ FirstPointerDown
  \/ PointerMove
  \/ IntroTimer
  \/ TransitionTimer
  \/ ScatterSignalEffect
  \/ PhaseEffect

\* as Fairness; the host runs an outstanding frame, after whatever gap
BacklogFairness ==
  /\ WF_vars(Frame \/ FrameAfterPause)
  /\ WF_vars(AutoScatterTimer)
  /\ WF_vars(ScatterCompletionGuardTimer)
  /\ WF_vars(InteractiveEnableTimer)
  /\ WF_vars(IntroTimer)
  /\ WF_vars(TransitionTimer)
  /\ WF_vars(ScatterSignalEffect)
  /\ WF_vars(PhaseEffect)

BacklogSpec == Init /\ [][BacklogNext]_vars /\ BacklogFairness

\* frame deltas updateGlobalExplosion is called with: the 16 ms baseline and
\* the cap
ExplosionDeltas == {96, MAX_FRAME_DELTA}

\* particles of an explosion in flight: in one of two cells of the top row,
\* at rest or rising fast enough to leave the grid, bright, dim or about to
\* fade
FlightParticles ==
  [ x : {50, 150}, y : {50}, vx : {0}, vy : {0, 0 - 300},
    intensity : {2, 350, 1000} ]

\* an explosion some frames after its start, with two particles left
ExplosionInit ==
  /\ \E ps \in [1 .. 2 -> FlightParticles], b \in ExplosionBursts :
     \E m \in { [startGlobalExplosion(Mounted, NoCoords, b)
                   EXCEPT !.globalExplosionParticles = ps] } :
       /\ ref = [f \in DOMAIN RefInit |-> m[f]]
       /\ host = [f \in DOMAIN HostInit |-> m[f]]
       /\ app = [f \in DOMAIN AppInit |-> m[f]]
       /\ hist = [[f \in DOMAIN HistInit |-> m[f]] EXCEPT !.scatterAllRan = FALSE]
  /\ probe = NoProbe

\* startGlobalExplosion(event) on its own
ExplosionStart ==
  \E coords \in Cells \cup {NoCoords}, burst \in ExplosionBursts :
    /\ ~ref.globalExplosionActive
    /\ Commit(startGlobalExplosion(Begin("explosionStart"), coords, burst))

\* updateGlobalExplosion(delta) on its own
ExplosionUpdate ==
  \E delta \in ExplosionDeltas :
    /\ ref.globalExplosionActive
    /\ Commit(updateGlobalExplosion(Begin("explosionUpdate"), delta).w)

ExplosionNext ==
  \/ ExplosionStart
  \/ ExplosionUpdate

ExplosionSpec == ExplosionInit /\ [][ExplosionNext]_vars

(* ---------------------------------------------------------------------- *)
(* Click explosions that reach beyond the clicked cell                     *)
(* ---------------------------------------------------------------------- *)
\* reach of the click explosions followed here, in cells: from a corner of
\* the grid some cells lie within it and some beyond
ClickRadius == 2
\* where the pointer presses and hovers: a corner of the grid and a glyph cell
ClickCells == {0, GlyphRow * GRID_SIZE + 1}
\* intensity (thousandths) below which the ripples followed here stop
\* spreading: the start cell and the ring around it
ClickRippleFloor == 300

\* the component after its global explosion, interactive mode enabled
ClickInit ==
  /\ \E b \in ExplosionBursts :
     \E m \in { interactiveEnableCallback(
                  startGlobalExplosion(
                    [Mounted EXCEPT !.firstInteractionHandled = TRUE],
                    NoCoords, b)) } :
       /\ ref = [f \in DOMAIN RefInit |-> m[f]]
       /\ host = [f \in DOMAIN HostInit |-> m[f]]
       /\ app = [f \in DOMAIN AppInit |-> m[f]]
       /\ hist = [[f \in DOMAIN HistInit |-> m[f]] EXCEPT !.scatterAllRan = FALSE]
  /\ probe = [kind |-> "click", cell |-> NoCoords, hover |-> NoCoords,
              clicks |-> 0, cancelled |-> 0]

\* handlePointerDown after the first interaction, for a press on any cell:
\* handlePointerActivation(event), then triggerExplosion(event).  Beside the
\* state: the pressed cell, the origin of the last ripple, the number of
\* pointer events so far and how many pending ignitions the event found
Click ==
  /\ probe.clicks < MaxPointerEvents
  /\ \E coords \in ClickCells, rnd \in SpawnDraws :
     \E cooled \in Cooled(coords) :
     \E w \in { triggerExplosionWithin(
                   handlePointerActivationFrom(Begin("click"), coords, cooled, rnd,
                                               ClickRippleFloor),
                   coords, ClickRadius) } :
       /\ ref' = [f \in DOMAIN ref |-> w[f]]
       /\ host' = [f \in DOMAIN host |-> w[f]]
       /\ app' = [f \in DOMAIN app |-> w[f]]
       /\ hist' = [f \in DOMAIN hist |-> w[f]]
       /\ probe' = [kind |-> "click", cell |-> coords, hover |-> coords,
                    clicks |-> probe.clicks + 1,
                    cancelled |-> Len(ref.rippleTimers) + Len(ref.explosionTimers)]

\* onPointerMove over any cell
Hover ==
  /\ probe.clicks < MaxPointerEvents
  /\ \E coords \in ClickCells, rnd \in SpawnDraws :
     \E cooled \in Cooled(coords) :
     \E w \in { handlePointerActivationFrom(Begin("hover"), coords, cooled, rnd,
                                            ClickRippleFloor) } :
       /\ ref' = [f \in DOMAIN ref |-> w[f]]
       /\ host' = [f \in DOMAIN host |-> w[f]]
       /\ app' = [f \in DOMAIN app |-> w[f]]
       /\ hist' = [f \in DOMAIN hist |-> w[f]]
       /\ probe' = [probe EXCEPT !.hover = coords, !.clicks = @ + 1,
                                 !.cancelled = Len(ref.rippleTimers)]

ClickNext ==
  \/ Click
  \/ Hover
  \/ RippleTimer
  \/ ExplosionTimer

ClickSpec == ClickInit /\ [][ClickNext]_vars

(* ---------------------------------------------------------------------- *)
(* A ripple at the source's reach                                          *)
(* ---------------------------------------------------------------------- *)
\* side of the grid the ripple is followed on, wide enough for cells beyond
\* its reach on every side of the middle
RippleGridSize == 11
\* MIN_RIPPLE_INTENSITY = 0.06 in thousandths
RIPPLE_FLOOR == 60

RippleInit ==
  /\ \E m \in {Mounted} :
       /\ ref = [f \in DOMAIN RefInit |-> m[f]]
       /\ host = [f \in DOMAIN HostInit |-> m[f]]
       /\ app = [f \in DOMAIN AppInit |-> m[f]]
       /\ hist = [[f \in DOMAIN HistInit |-> m[f]] EXCEPT !.scatterAllRan = FALSE]
  /\ \E cellX, cellY \in 0 .. RippleGridSize - 1 :
       probe = [kind |-> "pointer", cellX |-> cellX, cellY |-> cellY]

\* applyRipple(cellX, cellY): the timers it registers
ApplyRipple ==
  /\ probe.kind = "pointer"
  /\ probe' = [kind |-> "ripple", cellX |-> probe.cellX, cellY |-> probe.cellY,
               timers |-> RippleLoop(<<[x |-> probe.cellX, y |-> probe.cellY,
                                        intensity |-> 1000, depth |-> 0]>>,
                                     {}, <<>>, RippleGridSize, RIPPLE_FLOOR)]
  /\ UNCHANGED <<ref, host, app, hist>>

RippleNext == ApplyRipple

RippleSpec == RippleInit /\ [][RippleNext]_vars

(* ---------------------------------------------------------------------- *)
(* One cell of the intensity field at the source's time scale              *)
(*                                                                         *)
(* Spec scales the trail lifetime down and counts time in thirds of a      *)
(* millisecond.  intensityAgeRef is a Float32Array: every `ages[i] += ...` *)
(* rounds the sum to single precision.  Here one cell is followed with the *)
(* source's 400 ms lifetime and the age kept as the float32 value it is,   *)
(* in units of 2^-19 ms (the spacing of float32 between 16 and 32 ms).     *)
(* ---------------------------------------------------------------------- *)
\* TRAIL_RELEASE_MAX_AGE_MS = 400 ms, in units of 2^-19 ms
TRAIL_RELEASE_MAX_AGE_F32 == 209715200
\* SCATTER_PARTICLE_FRAME_MS = 1000 / 60 ms is 8738133 + 1/3 units of 2^-19 ms
SCATTER_PARTICLE_FRAME_F32 == 8738133
\* unit-delta steps counted for a cell; the counter stops there
MaxDecaySteps == 30

\* spacing of the float32 numbers around n units (n below 512 ms)
Float32Spacing(n) ==
  IF n < 16777216 THEN 1
  ELSE IF n < 33554432 THEN 2
  ELSE IF n < 67108864 THEN 4
  ELSE IF n < 134217728 THEN 8
  ELSE 16

\* ages[index] += 1 * SCATTER_PARTICLE_FRAME_MS: the float32 nearest to the
\* sum age + 8738133 + 1/3 (never a tie, so the round is up iff the remainder
\* reaches half the spacing)
Float32AddFrame(age) ==
  Bind(age + SCATTER_PARTICLE_FRAME_F32, LAMBDA n :
  Bind(Float32Spacing(n), LAMBDA q :
    IF q = 1 THEN n
    ELSE IF 2 * (n % q) >= q THEN n - (n % q) + q
    ELSE n - (n % q)))

DecayCellFloat32_noRelease(value, age, factor) ==
  IF value <= MIN_VISIBLE_INTENSITY THEN [value |-> 0, age |-> 0]
  ELSE
    Bind(Float32AddFrame(age), LAMBDA aged :
    Bind(Scale(value, factor), LAMBDA next :
      IF next <= MIN_VISIBLE_INTENSITY THEN [value |-> 0, age |-> 0]
      ELSE [value |-> next, age |-> aged]))

\* one cell of the decay loop for delta = 1, with decay factor `factor`
DecayCellFloat32(value, age, factor) ==
  IF value <= MIN_VISIBLE_INTENSITY THEN [value |-> 0, age |-> 0]
  ELSE
    Bind(Float32AddFrame(age), LAMBDA aged :
    Bind(Scale(value, factor), LAMBDA next :
      IF aged >= TRAIL_RELEASE_MAX_AGE_F32 THEN [value |-> 0, age |-> 0]
      ELSE IF next <= MIN_VISIBLE_INTENSITY THEN [value |-> 0, age |-> 0]
      ELSE [value |-> next, age |-> aged]))

\* intensities a cell is lit with, and decay factors (the source's, a slower
\* one and none at all)
CellIntensities == {2, 300, 650, 1000}
CellFactors == {DECAY_FACTOR, 9990, 10000}

DecayInit ==
  /\ \E m \in {Mounted} :
       /\ ref = [f \in DOMAIN RefInit |-> m[f]]
       /\ host = [f \in DOMAIN HostInit |-> m[f]]
       /\ app = [f \in DOMAIN AppInit |-> m[f]]
       /\ hist = [[f \in DOMAIN HistInit |-> m[f]] EXCEPT !.scatterAllRan = FALSE]
  /\ \E v \in CellIntensities, f \in CellFactors :
       probe = [kind |-> "cell", value |-> v, age |-> 0, steps |-> 0, factor |-> f]

\* a frame's decay pass reaches the cell (delta = 1)
DecayStep ==
  /\ probe.kind = "cell"
  /\ \E d \in {DecayCellFloat32(probe.value, probe.age, probe.factor)} :
       probe' = [probe EXCEPT !.value = d.value, !.age = d.age,
                              !.steps = Min(@ + 1, MaxDecaySteps)]
  /\ UNCHANGED <<ref, host, app, hist>>

\* a deposit or an ignition reaches the cell
CellDeposit ==
  /\ probe.kind = "cell"
  /\ \E v \in CellIntensities :
       probe' = [probe EXCEPT !.value = Max(@, Min(1000, v)), !.age = 0, !.steps = 0]
  /\ UNCHANGED <<ref, host, app, hist>>

DecayNext ==
  \/ DecayStep
  \/ CellDeposit

DecaySpec == DecayInit /\ [][DecayNext]_vars

(* ---------------------------------------------------------------------- *)
(* Glyph sampling: createTextData as a function of the rendered bitmap     *)
(*                                                                         *)
(* The grid side is a parameter here (the source reads GRID_SIZE): the     *)
(* cell-count limits are floors of 2 % and 20 % of the cell count and need *)
(* a grid of a hundred cells to differ from 0 and 1.  The bitmap holds     *)
(* CANVAS_SCALE x CANVAS_SCALE pixels per cell; a pixel is bright when its *)
(* strongest channel reaches SAMPLE_ALPHA_THRESHOLD.                       *)
(*   coverage : hundredths of a sample  (1.0 = 100 * SampleCount)          *)
(*   mask     : thousandths, as intensity                                  *)
(* colors and revealRatios are left out; kept, maxCoverage and fallback    *)
(* are observations of the run, not fields of TextData.                    *)
(* ---------------------------------------------------------------------- *)
\* grid side of the sampled bitmap; the source uses GRID_SIZE = 98
TextGridSize == 10
\* bitmap pixels per cell side; the source uses 18
CANVAS_SCALE == 2
\* the painted block of the bitmaps below: its first row and its height
PaintTop == 1
PaintRows == 3

HORIZONTAL_MARGIN_CELLS == 2
MIN_CELLS_RATIO == 2
MAX_CELLS_RATIO == 20
COVERAGE_THRESHOLD == 35
MAX_ALPHA_MULTIPLIER == 1

SampleCount == CANVAS_SCALE * CANVAS_SCALE

\* Bitmaps: ctx.fillText painted a block of PaintRows cell rows, `cols` cells
\* wide from the left edge; in row r of the block every cell has its first
\* levels[r] pixels bright.  context = FALSE: getContext('2d') returned null.
Bitmaps ==
  { [context |-> TRUE, levels |-> l, cols |-> c] :
      l \in [1 .. PaintRows -> 0 .. SampleCount], c \in 1 .. TextGridSize }
  \cup { [context |-> FALSE, levels |-> [r \in 1 .. PaintRows |-> 0], cols |-> 1] }

\* grid side and pixels per cell side of the block images below
SampleGridSize == 2
SampleScale == 2

SAMPLE_ALPHA_THRESHOLD == 50

\* Block images: every cell's pixel block is uniform, its three colour
\* channels at `rgb` and its alpha channel at `alpha`.
BlockChannels == {0, 255}
BlockAlphas == {0, 64, 128, 255}
BlockImages ==
  { [blocks |-> b, grid |-> SampleGridSize, scale |-> SampleScale] :
      b \in [1 .. SampleGridSize * SampleGridSize ->
               [rgb : BlockChannels, alpha : BlockAlphas]] }

\* the thresholds passed by createTextData, and the loose ones of a caller
\* that wants every touched cell
SampleThresholds ==
  { [alpha |-> SAMPLE_ALPHA_THRESHOLD, coverage |-> COVERAGE_THRESHOLD],
    [alpha |-> 5, coverage |-> 1] }

\* Math.max(r, g, b) of the pixel (pixelX, pixelY); fillText paints at full
\* strength on the black background
PixelMax(img, pixelX, pixelY) ==
  IF "blocks" \in DOMAIN img
  THEN img.blocks[(pixelY \div img.scale) * img.grid + pixelX \div img.scale + 1].rgb
  ELSE IF /\ pixelX \div CANVAS_SCALE < img.cols
          /\ pixelY \div CANVAS_SCALE >= PaintTop
          /\ pixelY \div CANVAS_SCALE < PaintTop + PaintRows
          /\ (pixelY % CANVAS_SCALE) * CANVAS_SCALE + (pixelX % CANVAS_SCALE)
               < img.levels[pixelY \div CANVAS_SCALE - PaintTop + 1]
       THEN 255 ELSE 0

\* Math.max(r, g, b) / 255 >= alphaThreshold (percent)
PixelBright(img, pixelX, pixelY, alphaThreshold) ==
  PixelMax(img, pixelX, pixelY) * 100 >= alphaThreshold * 255

\* stable sort of records by ascending key (Array.prototype.sort): a record
\* goes behind those of smaller key and those of equal key that came before it
sortByKey(cells) ==
  [p \in 1 .. Len(cells) |->
     cells[CHOOSE i \in 1 .. Len(cells) :
             p = 1 + Cardinality({ j \in 1 .. Len(cells) :
                       \/ cells[j].key < cells[i].key
                       \/ cells[j].key = cells[i].key /\ j < i })]]

downsampleCanvasCoverage(img, gridSize, scale, alphaThreshold, coverageThreshold) ==
  Bind([i \in 1 .. gridSize * gridSize |->
          [cellIndex |-> i - 1,
           x |-> (i - 1) % gridSize,
           y |-> (i - 1) \div gridSize,
           coverage |->
             100 * Cardinality({ s \in (0 .. scale - 1) \X (0 .. scale - 1) :
               PixelBright(img, ((i - 1) % gridSize) * scale + s[1],
                                ((i - 1) \div gridSize) * scale + s[2],
                                alphaThreshold) })]],
       LAMBDA all :
  Bind(SelectSeq(all, LAMBDA c : c.coverage >= coverageThreshold * scale * scale),
       LAMBDA cells :
    [cells |-> cells,
     maxCoverage |-> IF cells = <<>> THEN 0
                     ELSE SetMax({ cells[k].coverage : k \in 1 .. Len(cells) })]))

\* the fallback, were its stripe dimmer than the glyph floor
createFallbackTextData_dim(gridSize) ==
  Bind((gridSize * 3) \div 10, LAMBDA minStripe :
  Bind((gridSize * 7 + 9) \div 10, LAMBDA maxStripe :
  Bind(SelectSeq([i \in 1 .. gridSize * gridSize |-> i - 1],
                 LAMBDA c : c \div gridSize >= minStripe /\ c \div gridSize <= maxStripe),
       LAMBDA stripe :
    [mask |-> [c \in 0 .. gridSize * gridSize - 1 |->
                 IF c \div gridSize >= minStripe /\ c \div gridSize <= maxStripe
                 THEN 500 ELSE 0],
     revealRatios |-> [c \in 0 .. gridSize * gridSize - 1 |->
                 IF c \div gridSize >= minStripe /\ c \div gridSize <= maxStripe
                 THEN ((c % gridSize) * 1000) \div Max(1, gridSize - 1) ELSE 1000],
     cellIndices |-> stripe,
     cellIndexLookup |-> [c \in 0 .. gridSize * gridSize - 1 |-> NoText],
     kept |-> <<>>, placed |-> 0, maxCoverage |-> 0, fallback |-> TRUE])))

\* minStripe = floor(0.3 N), maxStripe = ceil(0.7 N); the lookup passed in is
\* all -1
createFallbackTextData(gridSize) ==
  Bind((gridSize * 3) \div 10, LAMBDA minStripe :
  Bind((gridSize * 7 + 9) \div 10, LAMBDA maxStripe :
  Bind(SelectSeq([i \in 1 .. gridSize * gridSize |-> i - 1],
                 LAMBDA c : c \div gridSize >= minStripe /\ c \div gridSize <= maxStripe),
       LAMBDA stripe :
    [mask |-> [c \in 0 .. gridSize * gridSize - 1 |->
                 IF c \div gridSize >= minStripe /\ c \div gridSize <= maxStripe
                 THEN 1000 ELSE 0],
     revealRatios |-> [c \in 0 .. gridSize * gridSize - 1 |->
                 IF c \div gridSize >= minStripe /\ c \div gridSize <= maxStripe
                 THEN ((c % gridSize) * 1000) \div Max(1, gridSize - 1) ELSE 1000],
     cellIndices |-> stripe,
     cellIndexLookup |-> [c \in 0 .. gridSize * gridSize - 1 |->
                 IF c \div gridSize >= minStripe /\ c \div gridSize <= maxStripe
                 THEN c - minStripe * gridSize ELSE NoText],
     kept |-> <<>>, placed |-> 0, maxCoverage |-> 0, fallback |-> TRUE])))

\* the normalisation, were it to leave the coverage as sampled
normalizeCoverage_raw(coverage, maxCoverage) ==
  clamp((coverage * 1000 * MAX_ALPHA_MULTIPLIER) \div (100 * SampleCount), 0, 1000)

\* clamp((cell.coverage / maxCoverage) * MAX_ALPHA_MULTIPLIER, 0, 1)
normalizeCoverage(coverage, maxCoverage) ==
  clamp((coverage * 1000 * MAX_ALPHA_MULTIPLIER) \div maxCoverage, 0, 1000)

\* the placement, were the horizontal margin kept even when the glyph block
\* leaves no room for it
placeKeptCells_forcedMargin(keptCells, maxCoverage, gridSize, place) ==
  Bind([k \in 1 .. Len(keptCells) |->
          [cellIndex |->
             clamp(keptCells[k].y - place.minY + place.offsetY, 0, gridSize - 1) * gridSize
               + clamp(keptCells[k].x - place.minX
                       + Max(place.offsetX, HORIZONTAL_MARGIN_CELLS), 0, gridSize - 1),
           coverage |-> keptCells[k].coverage,
           ratio |-> IF place.width > 1
                     THEN ((keptCells[k].x - place.minX) * 1000) \div (place.width - 1)
                     ELSE 500,
           normalizedCoverage |-> normalizeCoverage(keptCells[k].coverage, maxCoverage)]],
       LAMBDA hits :
  Bind([k \in 1 .. Len(hits) |->
          [cellIndex |-> hits[k].cellIndex,
           coverage |-> hits[k].coverage,
           writes |-> /\ hits[k].normalizedCoverage > 0
                      /\ \A j \in 1 .. k - 1 :
                           hits[j].cellIndex = hits[k].cellIndex
                             => hits[j].normalizedCoverage < hits[k].normalizedCoverage,
           first |-> /\ hits[k].normalizedCoverage > 0
                     /\ \A j \in 1 .. k - 1 :
                          hits[j].cellIndex = hits[k].cellIndex
                            => hits[j].normalizedCoverage <= 0]],
       LAMBDA marked :
  Bind(SelectSeq(marked, LAMBDA h : h.first), LAMBDA firsts :
  Bind(SelectSeq(marked, LAMBDA h : h.writes), LAMBDA written :
    [mask |-> [c \in 0 .. gridSize * gridSize - 1 |->
                 SetMax({0} \cup { hits[k].normalizedCoverage :
                                     k \in { j \in 1 .. Len(hits) : hits[j].cellIndex = c } })],
     revealRatios |-> [c \in 0 .. gridSize * gridSize - 1 |->
                 Bind({ k \in 1 .. Len(marked) :
                          marked[k].cellIndex = c /\ marked[k].writes }, LAMBDA ks :
                   IF ks = {} THEN ((c % gridSize) * 1000) \div Max(1, gridSize - 1)
                   ELSE hits[SetMax(ks)].ratio)],
     cellIndices |-> [p \in 1 .. Len(firsts) |-> firsts[p].cellIndex],
     cellIndexLookup |-> [c \in 0 .. gridSize * gridSize - 1 |->
                 IF \E p \in 1 .. Len(firsts) : firsts[p].cellIndex = c
                 THEN (CHOOSE p \in 1 .. Len(firsts) : firsts[p].cellIndex = c) - 1
                 ELSE NoText],
     kept |-> [p \in 1 .. Len(written) |->
                 [cellIndex |-> written[p].cellIndex, coverage |-> written[p].coverage]],
     placed |-> Len(keptCells),
     maxCoverage |-> maxCoverage,
     fallback |-> FALSE]))))

\* keptCells.forEach(...): the k-th kept cell writes its target cell unless
\* the mask there is already as high (mask starts at 0), and the first write
\* to a cell appends it to cellIndices
placeKeptCells(keptCells, maxCoverage, gridSize, place) ==
  Bind([k \in 1 .. Len(keptCells) |->
          [cellIndex |->
             clamp(keptCells[k].y - place.minY + place.offsetY, 0, gridSize - 1) * gridSize
               + clamp(keptCells[k].x - place.minX + place.offsetX, 0, gridSize - 1),
           coverage |-> keptCells[k].coverage,
           ratio |-> IF place.width > 1
                     THEN ((keptCells[k].x - place.minX) * 1000) \div (place.width - 1)
                     ELSE 500,
           normalizedCoverage |-> normalizeCoverage(keptCells[k].coverage, maxCoverage)]],
       LAMBDA hits :
  Bind([k \in 1 .. Len(hits) |->
          [cellIndex |-> hits[k].cellIndex,
           coverage |-> hits[k].coverage,
           writes |-> /\ hits[k].normalizedCoverage > 0
                      /\ \A j \in 1 .. k - 1 :
                           hits[j].cellIndex = hits[k].cellIndex
                             => hits[j].normalizedCoverage < hits[k].normalizedCoverage,
           first |-> /\ hits[k].normalizedCoverage > 0
                     /\ \A j \in 1 .. k - 1 :
                          hits[j].cellIndex = hits[k].cellIndex
                            => hits[j].normalizedCoverage <= 0]],
       LAMBDA marked :
  Bind(SelectSeq(marked, LAMBDA h : h.first), LAMBDA firsts :
  Bind(SelectSeq(marked, LAMBDA h : h.writes), LAMBDA written :
    [mask |-> [c \in 0 .. gridSize * gridSize - 1 |->
                 SetMax({0} \cup { hits[k].normalizedCoverage :
                                     k \in { j \in 1 .. Len(hits) : hits[j].cellIndex = c } })],
     revealRatios |-> [c \in 0 .. gridSize * gridSize - 1 |->
                 Bind({ k \in 1 .. Len(marked) :
                          marked[k].cellIndex = c /\ marked[k].writes }, LAMBDA ks :
                   IF ks = {} THEN ((c % gridSize) * 1000) \div Max(1, gridSize - 1)
                   ELSE hits[SetMax(ks)].ratio)],
     cellIndices |-> [p \in 1 .. Len(firsts) |-> firsts[p].cellIndex],
     cellIndexLookup |-> [c \in 0 .. gridSize * gridSize - 1 |->
                 IF \E p \in 1 .. Len(firsts) : firsts[p].cellIndex = c
                 THEN (CHOOSE p \in 1 .. Len(firsts) : firsts[p].cellIndex = c) - 1
                 ELSE NoText],
     kept |-> [p \in 1 .. Len(written) |->
                 [cellIndex |-> written[p].cellIndex, coverage |-> written[p].coverage]],
     placed |-> Len(keptCells),
     maxCoverage |-> maxCoverage,
     fallback |-> FALSE]))))

createTextData(gridSize, img) ==
  IF ~img.context THEN createFallbackTextData(gridSize)
  ELSE
    Bind(downsampleCanvasCoverage(img, gridSize, CANVAS_SCALE,
                                  SAMPLE_ALPHA_THRESHOLD, COVERAGE_THRESHOLD),
         LAMBDA sampled :
    IF Len(sampled.cells) = 0 \/ sampled.maxCoverage <= 0
    THEN createFallbackTextData(gridSize)
    ELSE
      Bind(sortByKey([k \in 1 .. Len(sampled.cells) |->
                        sampled.cells[k] @@ [key |-> 0 - sampled.cells[k].coverage]]),
           LAMBDA cells :
      Bind(clamp(Len(cells),
                 (gridSize * gridSize * MIN_CELLS_RATIO) \div 100,
                 (gridSize * gridSize * MAX_CELLS_RATIO) \div 100),
           LAMBDA keepCount :
      Bind(Max(COVERAGE_THRESHOLD * SampleCount,
               cells[Min(keepCount - 1, Len(cells) - 1) + 1].coverage),
           LAMBDA cutoff :
      Bind(SelectSeq(cells, LAMBDA c : c.coverage >= cutoff), LAMBDA passing :
      Bind(sortByKey([k \in 1 .. Len(passing) |->
                        [passing[k] EXCEPT !.key = passing[k].x * gridSize + passing[k].y]]),
           LAMBDA keptCells :
      Bind([minX |-> 0 - SetMax({ 0 - keptCells[k].x : k \in 1 .. Len(keptCells) }
                                 \cup {1 - gridSize}),
            maxX |-> SetMax({ keptCells[k].x : k \in 1 .. Len(keptCells) } \cup {0}),
            minY |-> 0 - SetMax({ 0 - keptCells[k].y : k \in 1 .. Len(keptCells) }
                                 \cup {1 - gridSize}),
            maxY |-> SetMax({ keptCells[k].y : k \in 1 .. Len(keptCells) } \cup {0})],
           LAMBDA box :
      Bind([width |-> Max(1, box.maxX - box.minX + 1),
            height |-> Max(1, box.maxY - box.minY + 1)],
           LAMBDA size :
        placeKeptCells(
          keptCells, sampled.maxCoverage, gridSize,
          [minX |-> box.minX, minY |-> box.minY, width |-> size.width,
           offsetX |-> clamp((gridSize - size.width) \div 2,
                             Min(HORIZONTAL_MARGIN_CELLS, Max(0, gridSize - size.width)),
                             Max(0, gridSize - size.width)),
           offsetY |-> clamp((gridSize - size.height) \div 2,
                             Min((gridSize * VERTICAL_MARGIN_PCT) \div 100,
                                 Max(0, gridSize - size.height)),
                             Max(0, gridSize - size.height))])))))))))

TextInit ==
  /\ \E m \in {Mounted} :
       /\ ref = [f \in DOMAIN RefInit |-> m[f]]
       /\ host = [f \in DOMAIN HostInit |-> m[f]]
       /\ app = [f \in DOMAIN AppInit |-> m[f]]
       /\ hist = [[f \in DOMAIN HistInit |-> m[f]] EXCEPT !.scatterAllRan = FALSE]
  /\ \E img \in Bitmaps : probe = [kind |-> "bitmap", image |-> img]

\* useMemo(createTextData, []) on the first render
CreateTextData ==
  /\ probe.kind = "bitmap"
  /\ probe' = [kind |-> "textData", image |-> probe.image,
               data |-> createTextData(TextGridSize, probe.image)]
  /\ UNCHANGED <<ref, host, app, hist>>

TextNext == CreateTextData

TextDataSpec == TextInit /\ [][TextNext]_vars

(* ---------------------------------------------------------------------- *)
(* The sweep over sampled and fallback glyph data                          *)
(* ---------------------------------------------------------------------- *)
\* the bitmaps whose glyph data the sweep runs over: no 2D context (the
\* fallback stripe), and a fully painted block three or ten cells wide
SweepBitmaps ==
  { [context |-> FALSE, levels |-> [r \in 1 .. PaintRows |-> 0], cols |-> 1] }
  \cup { [context |-> TRUE, levels |-> [r \in 1 .. PaintRows |-> SampleCount],
          cols |-> c] : c \in {3, TextGridSize} }

\* gaps between frames: a quarter of a second, in which the sweep passes less
\* than a column of the grid, and a second, in which it passes three
SweepGaps == {750, 3000}

\* the component mounted with the glyph data of one of the bitmaps; beside
\* the refs of the sweep, the cells queued so far in this scatter-all cycle
\* with the revealProgress of the frame that queued them
SweepInit ==
  /\ \E m \in {Mounted} :
       /\ ref = [f \in DOMAIN RefInit |-> m[f]]
       /\ host = [f \in DOMAIN HostInit |-> m[f]]
       /\ app = [f \in DOMAIN AppInit |-> m[f]]
       /\ hist = [[f \in DOMAIN HistInit |-> m[f]] EXCEPT !.scatterAllRan = FALSE]
  /\ \E img \in SweepBitmaps :
       \E d \in {createTextData(TextGridSize, img)} :
         probe = [kind |-> "sweep",
                  cellIndices |-> d.cellIndices,
                  revealRatios |-> d.revealRatios,
                  textRevealProgress |-> 0,
                  textScatterFlags |-> [k \in 1 .. Len(d.cellIndices) |-> 0],
                  textRevealTriggered |-> [k \in 1 .. Len(d.cellIndices) |-> 0],
                  pendingTextScatter |-> <<>>,
                  queued |-> <<>>]

\* frame: revealProgress advances by the gap, the sweep queues the cells it
\* has reached and the first batch of the queue is scattered
SweepFrame ==
  /\ probe.kind = "sweep"
  /\ probe.textRevealProgress < TEXT_REVEAL_DURATION_MS \/ probe.pendingTextScatter # <<>>
  /\ \E deltaMs \in SweepGaps :
     \E progress \in { IF probe.textRevealProgress < TEXT_REVEAL_DURATION_MS
                        THEN Min(TEXT_REVEAL_DURATION_MS, probe.textRevealProgress + deltaMs)
                        ELSE probe.textRevealProgress } :
     \E revealed \in { SweepRevealed(probe.cellIndices, probe.revealRatios,
                                      probe.textScatterFlags, probe.textRevealTriggered,
                                      progress) } :
     \E pending \in { probe.pendingTextScatter
                         \o [i \in 1 .. Len(revealed) |-> probe.cellIndices[revealed[i]]] } :
     \E take \in { Min(BATCH_SIZE, Len(pending)) } :
       probe' = [probe EXCEPT
                   !.textRevealProgress = progress,
                   !.textRevealTriggered =
                      [k \in DOMAIN @ |->
                         IF \E i \in 1 .. Len(revealed) : revealed[i] = k THEN 1 ELSE @[k]],
                   !.textScatterFlags =
                      [k \in DOMAIN @ |->
                         IF \E i \in 1 .. take : pending[i] = probe.cellIndices[k]
                         THEN 1 ELSE @[k]],
                   !.pendingTextScatter = SubSeq(pending, take + 1, Len(pending)),
                   !.queued = @ \o [i \in 1 .. Len(revealed) |->
                                      [cell |-> probe.cellIndices[revealed[i]],
                                       progress |-> progress]]]
  /\ UNCHANGED <<ref, host, app, hist>>

\* scatterAll: a new cycle
SweepScatterAll ==
  /\ probe.kind = "sweep"
  /\ probe.queued # <<>>
  /\ probe' = [probe EXCEPT
                 !.textRevealProgress = 0,
                 !.textScatterFlags = [k \in DOMAIN @ |-> 0],
                 !.textRevealTriggered = [k \in DOMAIN @ |-> 0],
                 !.pendingTextScatter = <<>>,
                 !.queued = <<>>]
  /\ UNCHANGED <<ref, host, app, hist>>

SweepNext ==
  \/ SweepFrame
  \/ SweepScatterAll

SweepSpec == SweepInit /\ [][SweepNext]_vars

(* ---------------------------------------------------------------------- *)
(* The audio sequencer (src/unnamed/part_005)                              *)
(* ---------------------------------------------------------------------- *)
\* Times are in twentieths of a second: the 0.05 s lead of start is 1, the
\* 0.35 s window of scheduleNotes 7, and a beat at 120 bpm 10.
START_LEAD == 1
WINDOW_AHEAD == 7

\* calls of start the environment may make
MaxStarts == 2
\* the latest context.currentTime followed
MaxNow == 12
\* beats a beat interval is followed for
MaxBeatCount == 4
\* the latest loop start followed
MaxStartTime == 30

\* the sequences passed to start: one or two tracks of notes one beat long,
\* at 120 bpm, looping or not, with or without loopBeats
SeqTracks ==
  { <<<<>>>>,
    <<<<[time |-> 0, duration |-> 1]>>>>,
    <<<<[time |-> 1, duration |-> 1]>>, <<[time |-> 0, duration |-> 1]>>>> }

Sequences == [bpm : {120}, loop : BOOLEAN, loopBeats : {0, 2}, tracks : SeqTracks]

RECURSIVE FlatMapNotes(_)
FlatMapNotes(tracks) ==
  IF tracks = <<>> THEN <<>> ELSE Head(tracks) \o FlatMapNotes(Tail(tracks))

\* sequence.tracks.flatMap(...).sort((a, b) => a.time - b.time)
flattenTracks(sequence) ==
  Bind(FlatMapNotes(sequence.tracks), LAMBDA notes :
    Bind(sortByKey([k \in 1 .. Len(notes) |->
                      [time |-> notes[k].time, duration |-> notes[k].duration,
                       key |-> notes[k].time]]), LAMBDA sorted :
      [k \in 1 .. Len(sorted) |->
         [time |-> sorted[k].time, duration |-> sorted[k].duration]]))

computeLoopLengthBeats(sequence) ==
  IF sequence.loopBeats > 0 THEN sequence.loopBeats
  ELSE Bind(FlatMapNotes(sequence.tracks), LAMBDA notes :
         SetMax({0} \cup { notes[k].time + notes[k].duration : k \in 1 .. Len(notes) }))

\* 60 / bpm
SecPerBeat(bpm) == (60 * 20) \div bpm

\* createSequencer(context): the closure's variables, and the host's live
\* intervals with what their callbacks captured
SequencerInit ==
  [ kind |-> "sequencer",
    playing |-> FALSE,
    bpm |-> 120,
    loop |-> TRUE,
    lookaheadTimer |-> Null,
    beatTimer |-> Null,
    startTime |-> 0,
    nextIndex |-> 0,
    loopLengthBeats |-> 0,
    combinedNotes |-> <<>>,
    synthCache |-> FALSE,
    intervals |-> {},
    handles |-> 0,
    now |-> 0,
    starts |-> 0 ]

\* window.setInterval(callback, ...): the handle is new
setInterval(s, callback) ==
  [ s |-> [s EXCEPT !.handles = @ + 1,
                    !.intervals = @ \cup {callback @@ [id |-> s.handles + 1]}],
    id |-> s.handles + 1 ]

\* window.clearInterval(handle)
clearInterval(s, handle) ==
  [s EXCEPT !.intervals = { i \in @ : i.id # handle }]

clearBeatTimer(s) ==
  IF s.beatTimer # Null
  THEN [clearInterval(s, s.beatTimer) EXCEPT !.beatTimer = Null]
  ELSE s

stop(s0) ==
  Bind([s0 EXCEPT !.playing = FALSE], LAMBDA s1 :
  Bind(IF s1.lookaheadTimer # Null
       THEN [clearInterval(s1, s1.lookaheadTimer) EXCEPT !.lookaheadTimer = Null]
       ELSE s1, LAMBDA s2 :
    [clearBeatTimer(s2) EXCEPT !.nextIndex = 0]))

dispose(s) == [stop(s) EXCEPT !.synthCache = FALSE]

\* the while loop of scheduleNotes: the index of the first note beyond the
\* window (notes are in time order), every note before it played
NotesDue(s) ==
  Cardinality({ k \in 1 .. Len(s.combinedNotes) :
                  /\ k > s.nextIndex
                  /\ \A j \in (s.nextIndex + 1) .. k :
                       s.combinedNotes[j].time * SecPerBeat(s.bpm)
                         <= (s.now - s.startTime) + WINDOW_AHEAD })

scheduleNotes(s0) ==
  IF ~s0.playing THEN s0
  ELSE
    Bind(NotesDue(s0), LAMBDA due :
    Bind([s0 EXCEPT !.nextIndex = @ + due,
                    !.synthCache = @ \/ due > 0], LAMBDA s1 :
      IF s1.nextIndex >= Len(s1.combinedNotes)
      THEN IF s1.loop
           THEN [s1 EXCEPT !.startTime = @ + s1.loopLengthBeats * SecPerBeat(s1.bpm),
                           !.nextIndex = 0]
           ELSE stop(s1)
      ELSE s1))

start(s0, sequence) ==
  Bind(scheduleNotes(
         [stop(s0) EXCEPT !.loop = sequence.loop,
                          !.bpm = sequence.bpm,
                          !.combinedNotes = flattenTracks(sequence),
                          !.loopLengthBeats = computeLoopLengthBeats(sequence),
                          !.startTime = s0.now + START_LEAD,
                          !.nextIndex = 0,
                          !.playing = TRUE]), LAMBDA s1 :
  Bind(setInterval(clearBeatTimer(s1),
                   [callback |-> "beat", beatCount |-> 0, loop |-> sequence.loop]),
       LAMBDA beat :
  Bind(setInterval([beat.s EXCEPT !.beatTimer = beat.id],
                   [callback |-> "scheduleNotes", beatCount |-> 0, loop |-> sequence.loop]),
       LAMBDA lookahead :
    [lookahead.s EXCEPT !.lookaheadTimer = lookahead.id])))

\* the callback of the beat interval i (onBeatHandler only observes)
beatCallback(s0, i) ==
  Bind([s0 EXCEPT !.intervals =
          (@ \ {i}) \cup {[i EXCEPT !.beatCount = @ + 1]}], LAMBDA s1 :
    IF ~i.loop /\ i.beatCount + 1 > s1.loopLengthBeats + 1
    THEN clearBeatTimer(s1)
    ELSE s1)

SeqInit ==
  /\ \E m \in {Mounted} :
       /\ ref = [f \in DOMAIN RefInit |-> m[f]]
       /\ host = [f \in DOMAIN HostInit |-> m[f]]
       /\ app = [f \in DOMAIN AppInit |-> m[f]]
       /\ hist = [[f \in DOMAIN HistInit |-> m[f]] EXCEPT !.scatterAllRan = FALSE]
  /\ probe = SequencerInit

SeqStart ==
  /\ probe.kind = "sequencer"
  /\ probe.starts < MaxStarts
  /\ \E sequence \in Sequences :
       probe' = [start(probe, sequence) EXCEPT !.starts = @ + 1]
  /\ UNCHANGED <<ref, host, app, hist>>

SeqStop ==
  /\ probe.kind = "sequencer"
  /\ probe' = stop(probe)
  /\ UNCHANGED <<ref, host, app, hist>>

SeqDispose ==
  /\ probe.kind = "sequencer"
  /\ probe' = dispose(probe)
  /\ UNCHANGED <<ref, host, app, hist>>

\* a lookahead interval fires
SeqLookaheadTick ==
  /\ probe.kind = "sequencer"
  /\ \E i \in probe.intervals :
       /\ i.callback = "scheduleNotes"
       /\ probe.startTime <= MaxStartTime
       /\ probe' = scheduleNotes(probe)
  /\ UNCHANGED <<ref, host, app, hist>>

\* a beat interval fires
SeqBeatTick ==
  /\ probe.kind = "sequencer"
  /\ \E i \in probe.intervals :
       /\ i.callback = "beat"
       /\ i.beatCount < MaxBeatCount
       /\ probe' = beatCallback(probe, i)
  /\ UNCHANGED <<ref, host, app, hist>>

\* context.currentTime moves on
SeqClock ==
  /\ probe.kind = "sequencer"
  /\ probe.now < MaxNow
  /\ probe' = [probe EXCEPT !.now = @ + 1]
  /\ UNCHANGED <<ref, host, app, hist>>

SeqNext ==
  \/ SeqStart
  \/ SeqStop
  \/ SeqDispose
  \/ SeqLookaheadTick
  \/ SeqBeatTick
  \/ SeqClock

SeqSpec == SeqInit /\ [][SeqNext]_vars

SampleInit ==
  /\ \E m \in {Mounted} :
       /\ ref = [f \in DOMAIN RefInit |-> m[f]]
       /\ host = [f \in DOMAIN HostInit |-> m[f]]
       /\ app = [f \in DOMAIN AppInit |-> m[f]]
       /\ hist = [[f \in DOMAIN HistInit |-> m[f]] EXCEPT !.scatterAllRan = FALSE]
  /\ \E img \in BlockImages, t \in SampleThresholds :
       probe = [kind |-> "pixels", image |-> img, thresholds |-> t]

\* a call of downsampleCanvasCoverage on the image
Downsample ==
  /\ probe.kind = "pixels"
  /\ probe' = [kind |-> "sampled", image |-> probe.image,
               thresholds |-> probe.thresholds,
               out |-> downsampleCanvasCoverage(
                         probe.image, probe.image.grid, probe.image.scale,
                         probe.thresholds.alpha, probe.thresholds.coverage)]
  /\ UNCHANGED <<ref, host, app, hist>>

SampleNext == Downsample

SampleSpec == SampleInit /\ [][SampleNext]_vars

(* ---------------------------------------------------------------------- *)
(* Properties                                                             *)
(* ---------------------------------------------------------------------- *)

\* C1 (as the code has it): onScatterComplete is never invoked twice in one
\* scatter cycle, a completion made by the last-cell path finds
\* remainingTextCells = 0, and every scatter cycle of a mounted component
\* eventually ends (by its last cell, by the completion guard, or by the
\* start of the global explosion).
C1_CompleteOncePerCycle ==
  /\ hist.completeCalls <= 1
  /\ (hist.completeCalls = 1 /\ hist.completedVia = "last")
        => ref.remainingTextCells = 0

C2_PoolBounded ==
  /\ Len(ref.scatterParticles) <= SCATTER_PARTICLE_MAX_COUNT
  /\ Len(ref.scatterParticles) = SCATTER_PARTICLE_MAX_COUNT
       => \A c \in Cells, rnd \in SpawnDraws :
            spawnScatterParticle(World, c, 1000, rnd).scatterParticles
              = ref.scatterParticles

\* C2 witness: a step tried to spawn on a full pool.
C2_Witness ==
  /\ hist.spawnRejected
  /\ Len(ref.scatterParticles) = SCATTER_PARTICLE_MAX_COUNT

\* C3: at most one animation-frame request is outstanding; it is the one
\* animationFrameRef names; an unforced scheduleFrame changes nothing while
\* one is queued, and a forced one leaves exactly one queued.
C3_SingleFrameRequest ==
  /\ Cardinality(host.rafQueue) <= 1
  /\ host.rafQueue \subseteq {ref.animationFrame}
  /\ (ref.animationFrame # Null /\ ~host.unmounted)
       => /\ host.rafQueue = {ref.animationFrame}
          /\ scheduleFrame(World, FALSE) = World
  /\ Cardinality(scheduleFrame(World, TRUE).rafQueue) = 1

\* C3 witness: a forced reschedule (a scatter-all) has replaced a queued frame.
C3_Witness ==
  /\ hist.scatterAllRan
  /\ hist.lastEvent = "scatterSignalEffect"
  /\ Cardinality(host.rafQueue) = 1

FrameHasReason(r) ==
  \/ r.explosionHasEnergy
  \/ r.intensityHasEnergy
  \/ r.particlesHaveEnergy
  \/ r.explosionActive
  \/ r.needsReveal
  \/ r.framePending

\* C4 (as the code has it): at the end of a frame callback another frame is
\* queued iff a subsystem reported energy, the explosion is active, the
\* reveal is unfinished, a reschedule was requested during the frame, or the
\* phase is not 'grid'; otherwise no frame is queued and the last-frame
\* timestamp is null.
C4_ContinuesIffReasonOrPhase ==
  hist.frameReport.ran =>
    /\ (host.rafQueue # {})
         <=> (FrameHasReason(hist.frameReport) \/ hist.frameReport.phaseRef # "grid")
    /\ host.rafQueue = {}
         => (ref.lastFrameTime = "null" /\ ref.animationFrame = Null)

\* C4 witness: a frame callback has ended with the scheduler idle.
C4_Witness ==
  /\ hist.frameReport.ran
  /\ host.rafQueue = {}
  /\ ref.lastFrameTime = "null"

\* C4 as stated: another frame is queued iff one of the four listed reasons
\* holds.
C4_ContinuesIffReason ==
  hist.frameReport.ran =>
    ((host.rafQueue # {}) <=> FrameHasReason(hist.frameReport))

\* C5 as stated: after unmount no animation-frame request is pending and the
\* frame callback does not run.
C5_NoFrameAfterUnmount ==
  host.unmounted => (host.rafQueue = {} /\ hist.lastEvent # "frame")

\* C6 as stated: after unmount no timer is pending, the intensity, age and
\* highlight buffers are zero and both particle populations are empty.
C6_QuietAfterUnmount ==
  host.unmounted =>
    /\ ref.rippleTimers = <<>>
    /\ ref.explosionTimers = <<>>
    /\ ref.scatterTimers = <<>>
    /\ ~ref.scatterCompletionGuard
    /\ ~ref.interactiveEnableTimer
    /\ ~ref.autoScatterTimer
    /\ ref.intensities = ZeroCells
    /\ ref.intensityAge = ZeroCells
    /\ ref.highlightActiveFlags = ZeroCells
    /\ ref.scatterParticles = <<>>
    /\ ref.globalExplosionParticles = <<>>

PendingEffectTimers == ref.rippleTimers \o ref.explosionTimers \o ref.scatterTimers

\* C7: no ripple, click-explosion or scatter timer scheduled before a reset
\* event (scatter-all, start of the global explosion, unmount) is pending
\* after it, and the reset step itself ends with none of them pending.
C7_NoStaleTimers ==
  /\ \A i \in 1 .. Len(PendingEffectTimers) : ~PendingEffectTimers[i].stale
  /\ (hist.scatterAllRan \/ hist.lastEvent = "unmount") => PendingEffectTimers = <<>>

\* C7 witness: a scatter-all found timers pending and cancelled them.
C7_Witness ==
  /\ hist.timersCancelled
  /\ hist.scatterAllRan
  /\ PendingEffectTimers = <<>>

\* C8: an auto-scatter timer expiry during a scatter cycle or the global
\* explosion starts no scatter-all and leaves the scatter state (flags,
\* remaining count, intensities, particles) as it was.
C8_BusyExpiryChangesNothing ==
  [][ (hist'.lastEvent = "autoScatterTimer"
         /\ (ref.scatterActive \/ ref.globalExplosionActive))
      => /\ ~hist'.scatterAllRan
         /\ ref'.scatterActive = ref.scatterActive
         /\ ref'.textScatterFlags = ref.textScatterFlags
         /\ ref'.remainingTextCells = ref.remainingTextCells
         /\ ref'.intensities = ref.intensities
         /\ ref'.scatterParticles = ref.scatterParticles
         /\ ref'.globalExplosionParticles = ref.globalExplosionParticles
         /\ ref'.pendingForcedScatter = ref.pendingForcedScatter
         /\ ref'.autoScatterTimer ]_vars

\* C8 witness: the auto-scatter timer has expired during the global explosion
\* and was re-armed.
C8_Witness ==
  /\ hist.lastEvent = "autoScatterTimer"
  /\ ~hist.scatterAllRan
  /\ ref.globalExplosionActive
  /\ ref.autoScatterTimer

\* C9 (as the code has it): a scatterSignal change that arrives during a
\* scatter cycle or the global explosion is flagged in pendingForcedScatter,
\* the flag is kept until a scatter-all starts, a flagged component that is
\* neither scattering nor exploding has its auto-scatter timer armed, and a
\* scatter-all eventually starts while the component stays mounted.
C9_DeferredStep ==
  /\ (hist'.lastEvent = "scatterSignalEffect")
        => (hist'.scatterAllRan \/ ref'.pendingForcedScatter)
  /\ ref.pendingForcedScatter
        => (ref'.pendingForcedScatter \/ hist'.scatterAllRan)
  /\ (ref'.pendingForcedScatter /\ ~host'.unmounted)
        => (ref'.scatterActive \/ ref'.globalExplosionActive \/ ref'.autoScatterTimer)

C9_DeferredTriggerNotLost ==
  /\ [][C9_DeferredStep]_vars
  /\ ref.pendingForcedScatter ~> (hist.scatterAllRan \/ host.unmounted)

\* C9 witness: a deferred trigger has outlived the explosion it arrived in and
\* waits for the auto-scatter timer.
C9_Witness ==
  /\ ref.pendingForcedScatter
  /\ ~ref.globalExplosionActive
  /\ ~ref.scatterActive
  /\ ref.autoScatterTimer
  /\ ~host.unmounted

\* C9 as stated: when the scatter or explosion in progress ends with a
\* trigger deferred, a scatter-all is started by that step.
C9_StartsUponCompletion ==
  [][ (/\ ref.pendingForcedScatter
       /\ ~host'.unmounted
       /\ \/ ref.globalExplosionActive /\ ~ref'.globalExplosionActive
          \/ ref.scatterActive /\ ~ref'.scatterActive)
      => hist'.scatterAllRan ]_vars

\* C10: while the component stays mounted and frames, timers and effects are
\* scheduled fairly, scatter-all starts infinitely often.
C10_ScatterLoopNeverStalls ==
  <>(host.unmounted) \/ []<>(hist.scatterAllRan)

\* C10 witness: the auto-scatter timer has started a scatter-all after a
\* completed cycle.
C10_Witness ==
  /\ hist.scatterAllRan
  /\ hist.lastEvent = "autoScatterTimer"
  /\ app.phase = "grid"
  /\ ~host.unmounted

\* Values handed to depositIntensity: below, at and above full intensity.
DepositValues == {400, 1500}
DepositSecond == {1000}
\* Cells deposited on: a background cell and a glyph cell.
DepositCells == MoveCoords \cup (DownCoords \ {NoCoords})

\* C11: depositIntensity(cell, v) with v > 0 leaves intensities[cell] at
\* max(previous, min(1, v)) and that cell's age at 0, changes no other cell,
\* is idempotent, and two deposits to a cell give the same field in either
\* order: the maximum of the contributions, never their sum.
C11_DepositMaxBlend ==
  \A c \in DepositCells, v \in DepositValues :
    \A d \in {depositIntensity(World, c, v)} :
      /\ d.intensities[c] = Max(ref.intensities[c], Min(1000, v))
      /\ d.intensityAge[c] = 0
      /\ \A o \in Cells \ {c} :
           /\ d.intensities[o] = ref.intensities[o]
           /\ d.intensityAge[o] = ref.intensityAge[o]
      /\ depositIntensity(d, c, v) = d
      /\ \A v2 \in DepositSecond :
           \A d2 \in {depositIntensity(d, c, v2)} :
             /\ d2.intensities
                  = depositIntensity(depositIntensity(World, c, v2), c, v).intensities
             /\ d2.intensities[c]
                  = Max(ref.intensities[c], Max(Min(1000, v), Min(1000, v2)))

\* C11 witness: a frame has deposited on a cell (a particle trail), leaving
\* it lit with age 0 next to an older lit cell.
C11_Witness ==
  /\ hist.lastEvent = "frame"
  /\ \E c \in Cells : ref.intensities[c] > 0 /\ ref.intensityAge[c] = 0
  /\ \E o \in Cells : ref.intensities[o] > 0 /\ ref.intensityAge[o] > 0

\* C12 (as the code has it): a lit cell that receives no deposit or ignition
\* is dark after at most 25 consecutive unit-delta decay steps, whatever its
\* starting intensity and the decay factor: the float32 age after 24 steps
\* is 399.99994 ms, still below TRAIL_RELEASE_MAX_AGE_MS, and the 25th step
\* releases the cell.  A lit cell's age is always below the threshold.
C12_ReleasedWithin25Steps ==
  (probe.kind = "cell" /\ probe.value > 0)
     => (probe.steps <= 24 /\ probe.age < TRAIL_RELEASE_MAX_AGE_F32)

\* C12 witness: the 25th step has released a cell that no decay had put out.
C12_Witness ==
  /\ probe.kind = "cell"
  /\ probe.factor = 10000
  /\ probe.steps = 25
  /\ probe.value = 0

\* C12 as stated: after 24 consecutive unit-delta decay steps the cell is dark.
C12_ReleasedWithin24Steps ==
  (probe.kind = "cell" /\ probe.steps >= 24) => probe.value = 0

\* whether the sweep has fully revealed glyph cell k of state w
FullyRevealed(w, k) ==
  computeSweepReveal(w.textRevealProgress, revealRatios[cellIndices[k]]) >= 1

C14_FullPoolSpawnIsNoOp ==
  Len(ref.scatterParticles) >= SCATTER_PARTICLE_MAX_COUNT
    => \A c \in Cells, rnd \in SpawnDraws :
         \A n \in {spawnScatterParticle(World, c, 1000, rnd)} :
           /\ [f \in DOMAIN ref |-> n[f]] = ref
           /\ [f \in DOMAIN host |-> n[f]] = host
           /\ [f \in DOMAIN app |-> n[f]] = app

\* C14 witness: a frame has tried to spawn on a full pool, with a frame
\* request outstanding.
C14_Witness ==
  /\ hist.spawnRejected
  /\ hist.lastEvent = "frame"
  /\ Len(ref.scatterParticles) = SCATTER_PARTICLE_MAX_COUNT
  /\ host.rafQueue # {}

\* C15 (as the code has it): a spawn made for a highlight
\* (trySpawnParticleForHighlight: pointer moves, ripples, the ignition of a
\* click explosion) happens at a cell only if no such spawn was stamped there
\* since the last reset of the stamps, or the cooldown has gone by since the
\* stamp.
C15_HighlightSpawnCooledDown ==
  hist.highlightSpawn.made
    => (~hist.highlightSpawn.stamped \/ hist.highlightSpawn.cooled)

\* C15 witness: a highlight spawn was made at a cell stamped before, once the
\* cooldown had gone by.
C15_Witness ==
  /\ hist.highlightSpawn.made
  /\ hist.highlightSpawn.stamped
  /\ hist.highlightSpawn.cooled
  /\ Len(hist.spawnedCells) > 0

\* C15 as stated: no callback run spawns two scatter particles at one cell
\* (two spawns of one run are far less than the cooldown apart).
C15_NoTwoSpawnsAtOnce ==
  \A i, j \in 1 .. Len(hist.spawnedCells) :
    i # j => hist.spawnedCells[i] # hist.spawnedCells[j]

\* C16: the global explosion starts at most once per component lifecycle. A
\* step starts it only if none was started before, the first-interaction latch
\* was open and the step is a pointer-down; the latch never reopens.
C16_ExplosionStartsOnce ==
  [][ /\ ref.firstInteractionHandled => ref'.firstInteractionHandled
      /\ hist'.explosionStarts # hist.explosionStarts =>
           /\ hist.explosionStarts = 0
           /\ hist'.explosionStarts = 1
           /\ ~ref.firstInteractionHandled
           /\ hist'.lastEvent = "pointerDown" ]_vars

\* a second pointer-down, delivered after the explosion has ended, starts a
\* click explosion and no global one
C16_Witness ==
  /\ hist.lastEvent = "pointerDown"
  /\ hist.pointerEvents = 2
  /\ hist.explosionStarts = 1
  /\ ~ref.globalExplosionActive
  /\ ref.explosionTimers # <<>>

\* C17: once the global explosion has started and while the component stays
\* mounted, the interactive-enable timer stays armed until it fires, it does
\* fire, and the step in which it fires leaves the explosion inactive, its
\* particle list empty and interactive mode enabled, whether or not particles
\* were still alive.
C17_TimerEndsExplosion ==
  /\ [](hist.lastEvent = "interactiveEnableTimer" =>
          /\ ~ref.globalExplosionActive
          /\ ref.globalExplosionParticles = <<>>
          /\ ref.interactiveEnabled)
  /\ []((hist.explosionStarts > 0 /\ ~host.unmounted /\ ~ref.interactiveEnabled)
          => ref.interactiveEnableTimer)
  /\ (hist.explosionStarts > 0 ~> (ref.interactiveEnabled \/ host.unmounted))

\* the timer fired while explosion particles were still alive
C17_Witness ==
  /\ hist.lastEvent = "interactiveEnableTimer"
  /\ hist.explosionCut
  /\ ~host.unmounted
  /\ ref.interactiveEnabled

\* C18: when createTextData does not take the fallback path, the number of
\* glyph cells it returns is above 0, at least minCellsRatio * N^2 and at most
\* maxCellsRatio * N^2.
C18_GlyphCountWithinRatios ==
  (probe.kind = "textData" /\ ~probe.data.fallback) =>
    /\ Len(probe.data.cellIndices) > 0
    /\ Len(probe.data.cellIndices) * 100
         >= MIN_CELLS_RATIO * TextGridSize * TextGridSize
    /\ Len(probe.data.cellIndices) * 100
         <= MAX_CELLS_RATIO * TextGridSize * TextGridSize

\* no cell of the bitmap reaches the coverage threshold
NoQualifyingCell(img) ==
  \A r \in 1 .. PaintRows : img.levels[r] * 100 < COVERAGE_THRESHOLD * SampleCount

\* C19: without a 2D context, or when sampling yields no qualifying cell,
\* createTextData returns the fallback stripe: cellIndices is non-empty and is
\* the rows floor(0.3 N) .. ceil(0.7 N), every glyph cell has mask >= 0.9, and
\* every cell outside the stripe has mask 0 and lookup -1.
C19_FallbackStripe ==
  (probe.kind = "textData"
     /\ (~probe.image.context \/ NoQualifyingCell(probe.image))) =>
    /\ Len(probe.data.cellIndices) > 0
    /\ { probe.data.cellIndices[k] : k \in 1 .. Len(probe.data.cellIndices) }
         = { c \in 0 .. TextGridSize * TextGridSize - 1 :
               /\ c \div TextGridSize >= (TextGridSize * 3) \div 10
               /\ c \div TextGridSize <= (TextGridSize * 7 + 9) \div 10 }
    /\ \A k \in 1 .. Len(probe.data.cellIndices) :
         /\ probe.data.mask[probe.data.cellIndices[k]] >= 900
         /\ probe.data.cellIndexLookup[probe.data.cellIndices[k]] = k - 1
    /\ \A c \in 0 .. TextGridSize * TextGridSize - 1 :
         c \notin { probe.data.cellIndices[k] : k \in 1 .. Len(probe.data.cellIndices) }
           => /\ probe.data.mask[c] = 0
              /\ probe.data.cellIndexLookup[c] = NoText

\* the context worked, something was painted, and no cell qualified
C19_Witness ==
  /\ probe.kind = "textData"
  /\ probe.image.context
  /\ NoQualifyingCell(probe.image)
  /\ \E r \in 1 .. PaintRows : probe.image.levels[r] > 0
  /\ probe.data.fallback

\* C20: on the sampled path every mask value lies in [0, 1]; the mask of a
\* kept cell is its coverage divided by the largest sampled coverage; the
\* best-covered kept cell has mask above 0.9; and of two kept cells the one
\* with strictly higher coverage has the strictly higher mask.
C20_MaskNormalised ==
  (probe.kind = "textData" /\ ~probe.data.fallback) =>
    /\ \A c \in DOMAIN probe.data.mask :
         probe.data.mask[c] >= 0 /\ probe.data.mask[c] <= 1000
    /\ Len(probe.data.kept) = Len(probe.data.cellIndices)
    /\ \A k \in 1 .. Len(probe.data.kept) :
         /\ probe.data.kept[k].cellIndex = probe.data.cellIndices[k]
         /\ probe.data.mask[probe.data.kept[k].cellIndex] * probe.data.maxCoverage
              <= probe.data.kept[k].coverage * 1000
         /\ (probe.data.mask[probe.data.kept[k].cellIndex] + 1) * probe.data.maxCoverage
              > probe.data.kept[k].coverage * 1000
         /\ (\A j \in 1 .. Len(probe.data.kept) :
               probe.data.kept[j].coverage <= probe.data.kept[k].coverage)
              => probe.data.mask[probe.data.kept[k].cellIndex] > 900
         /\ \A j \in 1 .. Len(probe.data.kept) :
              probe.data.kept[j].coverage > probe.data.kept[k].coverage
                => probe.data.mask[probe.data.kept[j].cellIndex]
                     > probe.data.mask[probe.data.kept[k].cellIndex]

\* two kept cells of different coverage
C20_Witness ==
  /\ probe.kind = "textData"
  /\ ~probe.data.fallback
  /\ \E j, k \in 1 .. Len(probe.data.kept) :
       probe.data.kept[j].coverage > probe.data.kept[k].coverage

\* C21: downsampleCanvasCoverage returns, in row-major order, one entry for
\* each cell whose pixel block is covered (alpha / 255 reaches the coverage
\* threshold) and none for the others, the coverage of an entry is its
\* block's alpha / 255 (to a hundredth), and maxCoverage is the largest
\* coverage returned.
C21_CoverageIsBlockAlpha ==
  probe.kind = "sampled" =>
    /\ \A j, k \in 1 .. Len(probe.out.cells) :
         j < k => probe.out.cells[j].cellIndex < probe.out.cells[k].cellIndex
    /\ { probe.out.cells[k].cellIndex : k \in 1 .. Len(probe.out.cells) }
         = { c \in 0 .. probe.image.grid * probe.image.grid - 1 :
               probe.image.blocks[c + 1].alpha * 100
                 >= probe.thresholds.coverage * 255 }
    /\ \A k \in 1 .. Len(probe.out.cells) :
         \A d \in { probe.out.cells[k].coverage * 255
                      - probe.image.blocks[probe.out.cells[k].cellIndex + 1].alpha
                          * 100 * probe.image.scale * probe.image.scale } :
           /\ d <= 255 * probe.image.scale * probe.image.scale
           /\ 0 - d <= 255 * probe.image.scale * probe.image.scale
    /\ probe.out.maxCoverage
         = SetMax({0} \cup { probe.out.cells[k].coverage : k \in 1 .. Len(probe.out.cells) })

PhaseRank(phase) ==
  CASE phase = "intro" -> 0 [] phase = "transition" -> 1 [] phase = "grid" -> 2

C23_CallsInFrameCoalesce ==
  (hist.frameReport.ran /\ hist.scheduleCalls > 0) =>
    /\ hist.frameReport.framePending
    /\ ref.animationFrame # Null
    /\ host.rafQueue = {ref.animationFrame}
    /\ ~ref.framePending
    /\ ~ref.frameRunning

\* a frame during which scheduleFrame was called twice
C23_Witness ==
  /\ hist.frameReport.ran
  /\ hist.scheduleCalls = 2
  /\ Cardinality(host.rafQueue) = 1

\* C24: in every reachable state a cell's highlight flag is set if and only
\* if its intensity is above MIN_VISIBLE_INTENSITY and its mask is 0.
C24_FlagIffLitBackgroundCell ==
  \A c \in Cells :
    ref.highlightActiveFlags[c] = 1
      <=> (ref.intensities[c] > MIN_VISIBLE_INTENSITY /\ mask[c] = 0)

\* C25: in every reachable state a cell is in the highlight-active list if
\* and only if its highlight flag is set, and no cell is in the list twice.
C25_ListIffFlag ==
  /\ \A c \in Cells :
       (\E k \in 1 .. Len(ref.highlightActive) : ref.highlightActive[k] = c)
         <=> ref.highlightActiveFlags[c] = 1
  /\ \A j, k \in 1 .. Len(ref.highlightActive) :
       ref.highlightActive[j] = ref.highlightActive[k] => j = k

\* C26: at the end of every frame callback each cell's intensity is exactly 0
\* or above MIN_VISIBLE_INTENSITY, and every cell whose intensity is 0 has
\* age 0.
C26_FrameLeavesNoDimCell ==
  hist.lastEvent = "frame" =>
    \A c \in Cells :
      /\ ref.intensities[c] = 0 \/ ref.intensities[c] > MIN_VISIBLE_INTENSITY
      /\ ref.intensities[c] = 0 => ref.intensityAge[c] = 0

\* a frame has ended whose decay pass ran on a lit field: one cell is dark,
\* another is still lit and has aged
C26_Witness ==
  /\ hist.lastEvent = "frame"
  /\ hist.frameReport.intensityHasEnergy
  /\ \E c \in Cells : ref.intensities[c] = 0
  /\ \E c \in Cells : ref.intensities[c] > MIN_VISIBLE_INTENSITY
                        /\ ref.intensityAge[c] > 0

\* C27: in every reachable state every cell's intensity lies in [0, 1]
\* (0 .. 1000 thousandths): no sequence of deposits, ignitions, explosion
\* snapshots and decay steps takes one below 0 or above 1.
C27_IntensityInUnitRange ==
  \A c \in Cells : ref.intensities[c] >= 0 /\ ref.intensities[c] <= 1000

\* after a global explosion, an ignition lands on a field that holds a cell at
\* full intensity and a cell that has decayed below it, with scatter particles
\* in flight
C27_Witness ==
  /\ hist.explosionStarts >= 1
  /\ hist.lastEvent \in {"pointerMove", "rippleTimer", "explosionTimer"}
  /\ ref.scatterParticles # <<>>
  /\ \E c \in Cells : ref.intensities[c] = 1000
  /\ \E c \in Cells : ref.intensities[c] > 0 /\ ref.intensities[c] < 1000

\* C28: in the glyph data createTextData returns (sampled or fallback),
\* cellIndices and cellIndexLookup are inverse maps: cellIndices has no
\* duplicates, cellIndexLookup[cellIndices[k]] = k for every k, and
\* cellIndexLookup[i] = -1 for every cell i not in cellIndices; in sampled data
\* every kept cell has a glyph cell of its own (recentring maps distinct kept
\* cells to distinct cells of the grid).
C28_LookupInvertsIndices ==
  probe.kind = "textData" =>
    /\ \A j, k \in 1 .. Len(probe.data.cellIndices) :
         probe.data.cellIndices[j] = probe.data.cellIndices[k] => j = k
    /\ \A k \in 1 .. Len(probe.data.cellIndices) :
         /\ probe.data.cellIndices[k] \in 0 .. TextGridSize * TextGridSize - 1
         /\ probe.data.cellIndexLookup[probe.data.cellIndices[k]] = k - 1
    /\ \A c \in 0 .. TextGridSize * TextGridSize - 1 :
         (\A k \in 1 .. Len(probe.data.cellIndices) : probe.data.cellIndices[k] # c)
           => probe.data.cellIndexLookup[c] = NoText
    /\ ~probe.data.fallback => Len(probe.data.cellIndices) = probe.data.placed

\* sampled data of a glyph block as wide as the grid, several rows high
C28_Witness ==
  /\ probe.kind = "textData"
  /\ ~probe.data.fallback
  /\ probe.image.cols = TextGridSize
  /\ probe.data.placed > TextGridSize
  /\ \E c \in 0 .. TextGridSize * TextGridSize - 1 :
       probe.data.cellIndexLookup[c] = NoText

\* C29 (as stated): however long the gap since the previous frame, a frame
\* advances every time-based subsystem, text reveal progress and noise time
\* included, by at most 2 frame units, and the first frame after idle or a
\* reset uses the 16 ms baseline.  (noiseTime advances by deltaMs.)
C29_EveryClockCapped ==
  hist.frameReport.ran =>
    /\ hist.frameReport.frameDelta <= MAX_FRAME_DELTA
    /\ hist.frameClock.reveal * 100 <= MAX_FRAME_DELTA * SCATTER_PARTICLE_FRAME_MS
    /\ hist.frameReport.deltaMs * 100 <= MAX_FRAME_DELTA * SCATTER_PARTICLE_FRAME_MS
    /\ hist.frameClock.fresh => hist.frameReport.deltaMs = BASELINE_DELTA_MS

\* C29 (as the code has it): however long the gap, a frame hands the
\* explosion, decay and scatter updates a delta of at most 2 frame units, so
\* no cell's age grows by more than 2 frame units in a frame; the first frame
\* after idle or a reset uses the 16 ms baseline; text reveal progress (and
\* noise time) advance by the whole elapsed time, reveal progress up to its
\* end.
C29_FrameDeltaCapped ==
  [][ hist'.frameReport.ran =>
        /\ hist'.frameReport.frameDelta <= MAX_FRAME_DELTA
        /\ hist'.frameReport.frameDelta
             = Min((hist'.frameReport.deltaMs * 100) \div SCATTER_PARTICLE_FRAME_MS,
                   MAX_FRAME_DELTA)
        /\ \A c \in Cells :
             ref'.intensityAge[c] * 100
               <= ref.intensityAge[c] * 100
                    + MAX_FRAME_DELTA * SCATTER_PARTICLE_FRAME_MS
        /\ hist'.frameClock.fresh = (ref.lastFrameTime = "null")
        /\ hist'.frameClock.fresh => hist'.frameReport.deltaMs = BASELINE_DELTA_MS
        /\ hist'.frameClock.reveal
             = Min(hist'.frameReport.deltaMs,
                   TEXT_REVEAL_DURATION_MS - ref.textRevealProgress) ]_vars

\* a frame has run after a gap longer than 2 frame units: its delta is the
\* cap, a lit cell has aged, and reveal progress moved by more than the cap
C29_Witness ==
  /\ hist.frameReport.ran
  /\ ~hist.frameClock.fresh
  /\ hist.frameReport.deltaMs * 100 > MAX_FRAME_DELTA * SCATTER_PARTICLE_FRAME_MS
  /\ hist.frameReport.frameDelta = MAX_FRAME_DELTA
  /\ hist.frameClock.reveal * 100 > MAX_FRAME_DELTA * SCATTER_PARTICLE_FRAME_MS
  /\ \E c \in Cells : ref.intensityAge[c] > 0

\* C30: in every frame in which the global explosion update
\* reports energy the reveal path is suppressed: no glyph cell is marked
\* reveal-triggered, none is appended to the pending-scatter queue, and no
\* glyph cell is scattered during that frame.
C30_ExplosionSuppressesReveal ==
  [][ (hist'.frameReport.ran /\ hist'.frameReport.explosionHasEnergy) =>
        /\ \A k \in 1 .. TextCount :
             ref'.textRevealTriggered[k] = 1 => ref.textRevealTriggered[k] = 1
        /\ Len(ref'.pendingTextScatter) <= Len(ref.pendingTextScatter)
        /\ \A k \in 1 .. TextCount :
             ref'.textScatterFlags[k] # 0 => ref.textScatterFlags[k] # 0
        /\ hist'.spawnedCells = <<>> ]_vars

\* the cell a particle lies in, or NoCoords when it is outside the grid
ParticleCell(p) ==
  IF p.x >= 0 /\ p.x < GRID_SIZE * 100 /\ p.y >= 0 /\ p.y < GRID_SIZE * 100
  THEN (p.y \div 100) * GRID_SIZE + (p.x \div 100)
  ELSE NoCoords

\* C31: after each global-explosion update that runs while the explosion is
\* active, every cell's intensity is the maximum, over the surviving
\* particles in that cell, of min(1, particle intensity), and 0 for a cell
\* with no surviving particle; when no particle survives the explosion is
\* inactive, its particle list is empty and the whole field is 0.
C31_SnapshotIsCellMaximum ==
  hist.lastEvent = "explosionUpdate" =>
    /\ \A c \in Cells :
         ref.intensities[c]
           = SetMax({0} \cup
               { Min(1000, ref.globalExplosionParticles[i].intensity) :
                   i \in { j \in 1 .. Len(ref.globalExplosionParticles) :
                             ParticleCell(ref.globalExplosionParticles[j]) = c } })
    /\ \A i \in 1 .. Len(ref.globalExplosionParticles) :
         ExplosionParticleSurvives(ref.globalExplosionParticles[i])
    /\ ref.globalExplosionActive <=> ref.globalExplosionParticles # <<>>
    /\ ~ref.globalExplosionActive => ref.intensities = ZeroCells

\* an update has left two surviving particles in one cell, the dimmer one
\* later in the list
C31_Witness ==
  /\ hist.lastEvent = "explosionUpdate"
  /\ \E i, j \in 1 .. Len(ref.globalExplosionParticles) :
       /\ ParticleCell(ref.globalExplosionParticles[i]) # NoCoords
       /\ ParticleCell(ref.globalExplosionParticles[i])
            = ParticleCell(ref.globalExplosionParticles[j])
       /\ ref.globalExplosionParticles[i].intensity
            < ref.globalExplosionParticles[j].intensity
       /\ i > j

\* C32: immediately after every reset event (a scatter-all or the start of
\* the global explosion) the intensity field is all zero and the
\* scatter-particle pool and the pending-scatter queue are empty.
C32_ResetClearsField ==
  [][ ((hist'.scatterAllRan /\ hist'.lastEvent # "frame")
         \/ (~ref.globalExplosionActive /\ ref'.globalExplosionActive)) =>
        /\ ref'.intensities = ZeroCells
        /\ ref'.scatterParticles = <<>>
        /\ ref'.pendingTextScatter = <<>> ]_vars

\* max(|dx|, |dy|)
Chebyshev(dx, dy) == Max(Max(dx, 0 - dx), Max(dy, 0 - dy))

\* C33: a ripple started at cell c schedules exactly one ignition for every
\* in-grid cell at Chebyshev distance d <= 4 from c and none for any other
\* cell, with delay d steps of RIPPLE_STEP_DELAY_MS and intensity 2^-d; every
\* scheduled cell is inside the grid.
C33_RippleCoversFourRings ==
  probe.kind = "ripple" =>
    /\ \A x, y \in 0 .. RippleGridSize - 1 :
         \A d \in {Chebyshev(x - probe.cellX, y - probe.cellY)} :
           Cardinality({ k \in 1 .. Len(probe.timers) :
                           probe.timers[k].x = x /\ probe.timers[k].y = y })
             = IF d <= 4 THEN 1 ELSE 0
    /\ \A k \in 1 .. Len(probe.timers) :
         \A d \in {Chebyshev(probe.timers[k].x - probe.cellX,
                              probe.timers[k].y - probe.cellY)} :
           /\ probe.timers[k].x \in 0 .. RippleGridSize - 1
           /\ probe.timers[k].y \in 0 .. RippleGridSize - 1
           /\ probe.timers[k].delay = d
           /\ probe.timers[k].intensity * (2 ^ d) <= 1000
           /\ (probe.timers[k].intensity + 1) * (2 ^ d) > 1000

\* a ripple from the middle of the grid: all four rings lie inside it, 81
\* cells in all
C33_Witness ==
  /\ probe.kind = "ripple"
  /\ probe.cellX = 5 /\ probe.cellY = 5
  /\ Len(probe.timers) = 81
  /\ \E k \in 1 .. Len(probe.timers) :
       probe.timers[k].x = 1 /\ probe.timers[k].y = 9 /\ probe.timers[k].delay = 4

(* Click explosions *)
\* squared distance, in cells, of the target of timer t from the pressed cell
ClickDist2(t) ==
  (t.x - CellX(probe.cell)) * (t.x - CellX(probe.cell))
    + (t.y - CellY(probe.cell)) * (t.y - CellY(probe.cell))

\* the cells a press on probe.cell reaches
ClickReach ==
  { c \in Cells :
      (CellX(c) - CellX(probe.cell)) * (CellX(c) - CellX(probe.cell))
        + (CellY(c) - CellY(probe.cell)) * (CellY(c) - CellY(probe.cell))
      <= ClickRadius * ClickRadius }

\* what the hundredths of a cell the distance is kept in can cost a delay
\* and an intensity
DelayRounding == EXPLOSION_DURATION_MS \div (100 * ClickRadius) + 1
IntensityRounding == 750 \div (100 * ClickRadius) + 1

\* the pending timers of a click explosion: targets in the grid and within
\* reach, one per cell, nearer first, delay and intensity as the distance says
ClickTimersShaped ==
  probe.cell # NoCoords =>
    LET ts == ref.explosionTimers IN
      /\ \A i \in 1..Len(ts) :
           /\ InGrid(ts[i].x, ts[i].y)
           /\ ClickDist2(ts[i]) <= ClickRadius * ClickRadius
           /\ (ts[i].delay * ClickRadius) * (ts[i].delay * ClickRadius)
                <= ClickDist2(ts[i]) * EXPLOSION_DURATION_MS * EXPLOSION_DURATION_MS
           /\ ClickDist2(ts[i]) * EXPLOSION_DURATION_MS * EXPLOSION_DURATION_MS
                <= ((ts[i].delay + DelayRounding) * ClickRadius)
                     * ((ts[i].delay + DelayRounding) * ClickRadius)
           /\ ts[i].intensity >= 250 /\ ts[i].intensity <= 1000
           /\ ((1000 - ts[i].intensity) * ClickRadius)
                * ((1000 - ts[i].intensity) * ClickRadius)
                <= ClickDist2(ts[i]) * 750 * 750
           /\ ClickDist2(ts[i]) * 750 * 750
                <= ((1000 - ts[i].intensity + IntensityRounding) * ClickRadius)
                     * ((1000 - ts[i].intensity + IntensityRounding) * ClickRadius)
      /\ \A i, j \in 1..Len(ts) :
           /\ (i # j => <<ts[i].x, ts[i].y>> # <<ts[j].x, ts[j].y>>)
           /\ (i < j => ts[i].delay <= ts[j].delay)
           /\ (ClickDist2(ts[i]) < ClickDist2(ts[j]) => i < j)

\* a press leaves a timer for every cell within reach (primed: after the press)
ClickSchedulesReach ==
  hist'.lastEvent = "click" =>
    /\ Len(ref'.explosionTimers) = Cardinality(ClickReach')
    /\ { ref'.explosionTimers[i].y * GRID_SIZE + ref'.explosionTimers[i].x :
         i \in 1..Len(ref'.explosionTimers) } = ClickReach'

\* a firing timer ignites its cell and attempts a spawn there, scattered
\* glyph cell or not
ClickTimerFires ==
  (hist'.lastEvent = "explosionTimer" /\ ref.explosionTimers # <<>>) =>
    LET t == Head(ref.explosionTimers)
        c == t.y * GRID_SIZE + t.x IN
      /\ ref'.intensities[c] >= t.intensity
      /\ ref'.intensityAge[c] = 0
      /\ \/ hist'.spawnRejected
         \/ \E i \in 1..Len(hist'.spawnedCells) : hist'.spawnedCells[i] = c

\* C34: a click explosion schedules exactly one timer for every in-grid cell
\* within EXPLOSION_RADIUS (Euclidean) of the pressed cell and none beyond, at
\* delay (d / EXPLOSION_RADIUS) * EXPLOSION_DURATION_MS, so nearer cells never
\* ignite after farther ones, and at intensity
\* max(0.25, 1 - 0.75 * d / EXPLOSION_RADIUS); a firing timer ignites its cell
\* and attempts a scatter-particle spawn even at an already scattered glyph cell
C34_ClickExplosionSchedule ==
  /\ []ClickTimersShaped
  /\ [][ClickSchedulesReach /\ ClickTimerFires]_vars

\* a press at a corner has left cells beyond its reach without a timer, and a
\* timer of a later press is pending for a glyph cell already scattered
C34_Witness ==
  /\ probe.cell # NoCoords
  /\ ClickReach # Cells
  /\ probe.clicks = 2
  /\ \E i \in 1..Len(ref.explosionTimers) :
       LET c == ref.explosionTimers[i].y * GRID_SIZE + ref.explosionTimers[i].x IN
         /\ cellIndexLookup[c] # NoText
         /\ ref.textScatterFlags[cellIndexLookup[c]] = 1
         /\ ref.explosionTimers[i].intensity < 900
         /\ ClickDist2(ref.explosionTimers[i]) > 0

(* The pending-scatter queue *)
InPendingScatter(c) ==
  \E i \in 1..Len(ref.pendingTextScatter) : ref.pendingTextScatter[i] = c

\* a frame takes the first BATCH_SIZE entries of the queue, scatters them and
\* leaves the rest in order at the front of the queue
FrameDrainsBatch ==
  (hist'.frameReport.ran /\ ~hist'.scatterAllRan) =>
    LET q == ref.pendingTextScatter
        q2 == ref'.pendingTextScatter IN
      /\ Cardinality({ k \in 1..TextCount :
                         ref.textScatterFlags[k] = 0 /\ ref'.textScatterFlags[k] = 1 })
           <= BATCH_SIZE
      /\ \A i \in 1..Min(BATCH_SIZE, Len(q)) :
           ref'.textScatterFlags[cellIndexLookup[q[i]]] = 1
      /\ Len(q) > BATCH_SIZE =>
           /\ Len(q2) >= Len(q) - BATCH_SIZE
           /\ \A i \in 1..(Len(q) - BATCH_SIZE) : q2[i] = q[i + BATCH_SIZE]

\* a cell leaves the queue scattered, or with a reset
PendingLeavesScattered ==
  \A c \in Cells :
    (InPendingScatter(c) /\ ~InPendingScatter(c)') =>
      \/ ref'.textScatterFlags[cellIndexLookup[c]] = 1
      \/ hist'.scatterAllRan

\* C35: a frame scatters at most BATCH_SIZE (96) cells from the pending-scatter
\* queue, in queue order; a frame is scheduled whenever the queue is not
\* empty, also when the particle pool is full, and every queued cell is
\* eventually scattered or discarded by a reset: a queue with cells in it
\* leads to the empty queue, and a cell leaves the queue only scattered or
\* with a reset
C35_QueueDrainsInOrder ==
  /\ [](ref.pendingTextScatter # <<>> => host.rafQueue # {})
  /\ [][FrameDrainsBatch /\ PendingLeavesScattered]_vars
  /\ (ref.pendingTextScatter # <<>>) ~> (ref.pendingTextScatter = <<>>)

\* a frame found the particle pool full and left cells waiting in the queue
C35_Witness ==
  /\ hist.frameReport.ran
  /\ hist.spawnRejected
  /\ Len(ref.scatterParticles) >= SCATTER_PARTICLE_MAX_COUNT
  /\ ref.pendingTextScatter # <<>>

(* The order of the sweep *)
\* C36 (as claimed): within a scatter-all cycle the sweep queues glyph cells
\* in non-decreasing revealRatio order, each at most once and only when
\* revealProgress + tolerance >= its revealRatio; revealProgress stays in
\* [0,1] and does not decrease within a cycle.
C36_SweepQueuesInRatioOrder ==
  probe.kind = "sweep" =>
    /\ \A i, j \in 1 .. Len(probe.queued) :
         i < j => probe.revealRatios[probe.queued[i].cell]
                    <= probe.revealRatios[probe.queued[j].cell]
    /\ \A i, j \in 1 .. Len(probe.queued) :
         i # j => probe.queued[i].cell # probe.queued[j].cell
    /\ \A i \in 1 .. Len(probe.queued) :
         probe.queued[i].progress * 1000
             + Max(TEXT_REVEAL_SMOOTHING, 0) * TEXT_REVEAL_DURATION_MS
           >= probe.revealRatios[probe.queued[i].cell] * TEXT_REVEAL_DURATION_MS
    /\ probe.textRevealProgress >= 0
    /\ probe.textRevealProgress <= TEXT_REVEAL_DURATION_MS

\* position of cell c in the glyph data's cellIndices
SweepPosition(c) ==
  CHOOSE k \in 1 .. Len(probe.cellIndices) : probe.cellIndices[k] = c

SweepQueuedFrameByFrame ==
  probe.kind = "sweep" =>
    /\ \A i, j \in 1 .. Len(probe.queued) :
         i < j =>
           /\ probe.queued[i].progress <= probe.queued[j].progress
           /\ probe.queued[i].progress < probe.queued[j].progress
                => probe.revealRatios[probe.queued[i].cell]
                     <= probe.revealRatios[probe.queued[j].cell]
           /\ probe.queued[i].progress = probe.queued[j].progress
                => SweepPosition(probe.queued[i].cell) < SweepPosition(probe.queued[j].cell)
    /\ \A i, j \in 1 .. Len(probe.queued) :
         i # j => probe.queued[i].cell # probe.queued[j].cell
    /\ \A i \in 1 .. Len(probe.queued) :
         probe.queued[i].progress * 1000
             + Max(TEXT_REVEAL_SMOOTHING, 0) * TEXT_REVEAL_DURATION_MS
           >= probe.revealRatios[probe.queued[i].cell] * TEXT_REVEAL_DURATION_MS
    /\ probe.textRevealProgress >= 0
    /\ probe.textRevealProgress <= TEXT_REVEAL_DURATION_MS

SweepProgressGrows ==
  (probe.kind = "sweep" /\ probe'.queued # <<>>) =>
    probe'.textRevealProgress >= probe.textRevealProgress

\* C36 (as the code has it): within a scatter-all cycle the cells queued by a
\* later frame have revealRatios no smaller than the cells queued by an
\* earlier frame, and the cells one frame queues are in cellIndices order
\* (by column for sampled glyph data, by row for the fallback stripe); each
\* glyph cell is queued at most once and only when revealProgress + tolerance
\* >= its revealRatio; revealProgress stays in [0,1] and does not decrease
\* within a cycle.
C36_SweepQueuesFrameByFrame ==
  /\ []SweepQueuedFrameByFrame
  /\ [][SweepProgressGrows]_vars

\* one frame of the sweep over the fallback stripe has queued cells of two
\* columns, a cell of the right column before a cell of the left one
C36_Witness ==
  /\ probe.kind = "sweep"
  /\ \E i, j \in 1 .. Len(probe.queued) :
       /\ i < j
       /\ probe.queued[i].progress = probe.queued[j].progress
       /\ probe.revealRatios[probe.queued[i].cell]
            > probe.revealRatios[probe.queued[j].cell]

(* The count of unscattered glyph cells *)
UnscatteredTextCells ==
  Cardinality({ k \in 1 .. TextCount : ref.textScatterFlags[k] = 0 })

\* a spawn at a glyph cell scattered before, or spawns at cells off the glyph
\* only, leave the counter as it was
SpawnsLeaveCounter ==
  /\ (hist'.duplicateSpawn /\ hist'.lastEvent = "explosionTimer")
       => ref'.remainingTextCells = ref.remainingTextCells
  /\ (/\ hist'.spawnedCells # <<>>
      /\ hist'.lastEvent \in {"pointerMove", "rippleTimer"}
      /\ \A i \in 1 .. Len(hist'.spawnedCells) :
           cellIndexLookup[hist'.spawnedCells[i]] = NoText)
       => ref'.remainingTextCells = ref.remainingTextCells

\* C37: remainingTextCells is the number of glyph cells whose scatter flag is
\* 0, and never negative; a duplicate spawn at a glyph cell scattered before
\* and spawns at cells off the glyph do not change it
C37_CounterMatchesFlags ==
  /\ [](ref.remainingTextCells = UnscatteredTextCells /\ ref.remainingTextCells >= 0)
  /\ [][SpawnsLeaveCounter]_vars

\* a click explosion has just scattered again a glyph cell the cycle had
\* scattered before, with other glyph cells still to go
C37_Witness ==
  /\ hist.lastEvent = "explosionTimer"
  /\ hist.duplicateSpawn
  /\ hist.spawnedCells # <<>>
  /\ ref.remainingTextCells > 0
  /\ ref.remainingTextCells < TextCount

(* The interactive-mode gate *)
\* pointer input before interactive mode leaves no ignition timer, and
\* interactive mode comes on with the interactive-enable timer only
GateHolds ==
  /\ (hist'.lastEvent \in {"pointerMove", "pointerDown"} /\ ~ref.interactiveEnabled)
       => ref'.rippleTimers = <<>> /\ ref'.explosionTimers = <<>>
  /\ (~ref.interactiveEnabled /\ ref'.interactiveEnabled)
       => /\ hist'.lastEvent = "interactiveEnableTimer"
          /\ ref.interactiveEnableTimer
          /\ ref.firstInteractionHandled
  /\ (~ref.interactiveEnableTimer /\ ref'.interactiveEnableTimer)
       => hist'.lastEvent = "pointerDown" /\ ~ref.firstInteractionHandled

\* C38: no ripple and no click explosion is started before interactive mode
\* is enabled, and interactive mode is enabled only by the timer the first
\* pointer-down's global explosion arms; until that timer fires, pointer moves
\* and further pointer-downs schedule no ignition timers
C38_NoIgnitionBeforeInteractive ==
  /\ [](~ref.interactiveEnabled
          => ref.rippleTimers = <<>> /\ ref.explosionTimers = <<>>)
  /\ [][GateHolds]_vars

\* a pointer event after the first press, delivered while the
\* interactive-enable timer is still pending
C38_Witness ==
  /\ hist.lastEvent \in {"pointerMove", "pointerDown"}
  /\ hist.pointerEvents >= 2
  /\ ref.firstInteractionHandled
  /\ ref.interactiveEnableTimer
  /\ ~ref.interactiveEnabled

(* Pending ignitions *)
IsSuffix(s, t) == \E k \in 0 .. Len(t) : s = SubSeq(t, k + 1, Len(t))

\* the ignitions a ripple from cell c schedules, in firing order
RippleSchedule(c) ==
  RippleLoop(<<[x |-> CellX(c), y |-> CellY(c), intensity |-> 1000, depth |-> 0]>>,
             {}, <<>>, GRID_SIZE, ClickRippleFloor)

\* the ignitions a click explosion at cell c schedules, in firing order
ClickSchedule(c) ==
  ExplosionTimerLoop(0, CellX(c), CellY(c), <<>>, ClickRadius)

\* C39: the pending ripple ignitions are the not yet fired ones of the most
\* recent ripple, and the pending click-explosion ignitions those of the most
\* recent click: a new ripple (or click explosion) cancels what was pending
\* of the previous one, so no effect has more ignitions pending than one
\* ripple (or one click explosion) schedules
C39_PendingIgnitionsOfLastEffect ==
  /\ IF probe.hover = NoCoords THEN ref.rippleTimers = <<>>
     ELSE /\ IsSuffix(ref.rippleTimers, RippleSchedule(probe.hover))
          /\ Len(ref.rippleTimers) <= Len(RippleSchedule(probe.hover))
  /\ IF probe.cell = NoCoords THEN ref.explosionTimers = <<>>
     ELSE /\ IsSuffix(ref.explosionTimers, ClickSchedule(probe.cell))
          /\ Len(ref.explosionTimers) <= Cardinality(ClickReach)

\* a second pointer event found ignitions of the first still pending and
\* left its own
C39_Witness ==
  /\ probe.clicks = 2
  /\ hist.lastEvent \in {"click", "hover"}
  /\ probe.cancelled > 0
  /\ ref.rippleTimers # <<>>
  /\ Len(ref.rippleTimers) > 1

(* The sequencer's intervals *)
\* C40: after any sequence of start, stop, dispose and timer ticks at most one
\* lookahead interval and at most one beat interval exist, and a lookahead
\* interval exists only while the sequencer is playing, also after a
\* non-looping sequence has stopped itself with all its notes scheduled
C40_IntervalsFollowPlaying ==
  probe.kind = "sequencer" =>
    /\ Cardinality({ i \in probe.intervals : i.callback = "scheduleNotes" }) <= 1
    /\ Cardinality({ i \in probe.intervals : i.callback = "beat" }) <= 1
    /\ (\E i \in probe.intervals : i.callback = "scheduleNotes") => probe.playing

====
